---- MODULE Spec2Model ----
(***************************************************************************)
(* A model of magick/compare.c (ImageMagick 6): the per-channel distortion *)
(* metrics, the difference renderer built on them and the sliding-window   *)
(* similarity search.                                                      *)
(*                                                                         *)
(* Real numbers are kept exact.  A pixel component is an integer in        *)
(* 0..QuantumRange; the alpha factors Sa and Da are kept as the integers   *)
(* QuantumRange*Sa and QuantumRange*Da; an accumulator of a metric holds   *)
(* the integer numerator of the sum the code forms, and a finished         *)
(* distortion is a record [k, n, d]:                                       *)
(*    "rat"   n/d                 "sqrt"  sqrt(n/d)                        *)
(*    "db"    -10*log10(n/d)      "oms"   1 - sqrt(n/d)                    *)
(*    "inf"   +infinity           "max"   MagickMaximumValue               *)
(*    "min"   1 - MagickMaximumValue                                       *)
(***************************************************************************)
EXTENDS Integers, Naturals, Sequences, FiniteSets, TLC

\* ------------------------------------------------------------------ bounds
QuantumRange == 2
MaxColumns == 2
MaxRows == 2
NumThreads == 2
MaxFailures == 1

\* --------------------------------------------------------------- channels
RedChannel == "Red"
GreenChannel == "Green"
BlueChannel == "Blue"
OpacityChannel == "Opacity"
IndexChannel == "Index"
BlackChannel == IndexChannel
CompositeChannels == {RedChannel, GreenChannel, BlueChannel, OpacityChannel, IndexChannel}
DefaultChannels == {RedChannel, GreenChannel, BlueChannel, OpacityChannel, IndexChannel}
Composite == "Composite"
Slots == CompositeChannels \cup {Composite}
OpaqueOpacity == 0

Abs(i) == IF i < 0 THEN -i ELSE i
MagickMax(a, b) == IF a > b THEN a ELSE b
MagickMin(a, b) == IF a < b THEN a ELSE b
Bit(b) == IF b THEN 1 ELSE 0

\* ------------------------------------------------------------ exact values
Rat(n, d) == [k |-> "rat", n |-> n, d |-> d]
Sqrt(v) == [k |-> "sqrt", n |-> v.n, d |-> v.d]
Zero == Rat(0, 1)
One == Rat(1, 1)
Infinity == [k |-> "inf", n |-> 1, d |-> 1]
MagickMaximumValue == [k |-> "max", n |-> 1, d |-> 1]

\* n/d < m/e for two "rat" values
RatLess(a, b) == a.n * b.d < b.n * a.d
RatEq(a, b) == a.n * b.d = b.n * a.d
IsZero(v) == v.k \in {"rat", "sqrt"} /\ v.n = 0

\* The order of the reals on the values one scan compares: the values of one
\* metric (one kind, with "inf" among the "db" values), MagickMaximumValue,
\* its negative "min", and a rational threshold (a "db" value is at least 0 and
\* is compared with a threshold that is at most 0 only).
Square(v) == Rat(v.n * v.n, v.d * v.d)
Less(a, b) ==
  CASE b.k = "min" -> FALSE
    [] a.k = "min" -> TRUE
    [] a.k = "inf" -> FALSE
    [] b.k = "inf" -> TRUE
    [] a.k = "max" -> FALSE
    [] b.k = "max" -> TRUE
    [] a.k = "rat" /\ b.k = "rat" -> RatLess(a, b)
    [] a.k = "sqrt" /\ b.k = "sqrt" -> RatLess(a, b)
    [] a.k = "db" /\ b.k = "db" -> RatLess(b, a)
    [] a.k = "oms" /\ b.k = "oms" -> RatLess(b, a)
    [] a.k = "sqrt" /\ b.k = "rat" -> b.n > 0 /\ RatLess(a, Square(b))
    [] a.k = "rat" /\ b.k = "sqrt" -> a.n < 0 \/ RatLess(Square(a), b)
    [] a.k = "oms" /\ b.k = "rat" ->
         \* 1 - sqrt(r) < t  <=>  sqrt(r) > 1 - t
         b.n > b.d \/ RatLess(Square(Rat(b.d - b.n, b.d)), a)
    [] a.k = "rat" /\ b.k = "oms" ->
         \* t < 1 - sqrt(r)  <=>  sqrt(r) < 1 - t
         a.n < a.d /\ RatLess(b, Square(Rat(a.d - a.n, a.d)))
    [] a.k = "db" /\ b.k = "rat" /\ b.n <= 0 -> FALSE
    [] a.k = "rat" /\ b.k = "db" /\ a.n <= 0 -> a.n < 0 \/ b.n < b.d
LessEq(a, b) == ~Less(b, a)
Same(a, b) == ~Less(a, b) /\ ~Less(b, a)

\* ----------------------------------------------------------------- images
\* A pixel: red, green, blue, opacity and (CMYK) index, each in 0..QuantumRange.
Pixel(r, g, b, o, i) == [Red |-> r, Green |-> g, Blue |-> b, Opacity |-> o, Index |-> i]
BlackPixel == Pixel(0, 0, 0, OpaqueOpacity, 0)
WhitePixel == Pixel(QuantumRange, QuantumRange, QuantumRange, OpaqueOpacity, 0)
TintPixel == Pixel(QuantumRange, 1, 0, 1, QuantumRange)
Palette == {BlackPixel, WhitePixel, TintPixel}
Gray == {BlackPixel, WhitePixel}

NoArtifact == [k |-> "none", n |-> 0, d |-> 1]
NoError == [mean_error_per_pixel |-> Zero, normalized_mean_error |-> Zero,
            normalized_maximum_error |-> Zero]

\* The fields of an Image the comparison methods read or write: properties
\* holds the keys of the properties set, artifact the value of
\* "compare:similarity-threshold", and cache_faults the number of crops or
\* distortions of its pixels that the pixel cache lets fail.
MakeImage(cols, rws, m, cs, pix) ==
  [columns |-> cols, rows |-> rws, matte |-> m, colorspace |-> cs, fuzz |-> 0,
   pixels |-> pix, error |-> NoError, properties |-> {}, exception |-> "none",
   progress_monitor |-> "none", artifact |-> NoArtifact, cache_faults |-> 0]

Positions(cols, rws) == (0..(cols - 1)) \X (0..(rws - 1))
ImagesOver(pal, cols, rws, mattes, spaces) ==
  { MakeImage(cols, rws, m, cs, pix) :
      m \in mattes, cs \in spaces, pix \in [Positions(cols, rws) -> pal] }

\* GetCacheViewVirtualPixels: a pixel of the image, or for a coordinate outside
\* it the pixel the boundary extension gives (the nearest edge pixel).
VirtualPixel(img, x, y) ==
  img.pixels[<<MagickMin(x, img.columns - 1), MagickMin(y, img.rows - 1)>>]

\* CropImage: the sub-image of the given size at the given offset.
CropImage(img, cols, rws, xo, yo) ==
  [img EXCEPT !.columns = cols, !.rows = rws,
              !.pixels = [pos \in Positions(cols, rws) |->
                            img.pixels[<<pos[1] + xo, pos[2] + yo>>]]]

\* ------------------------------------------------------ morphology validator
\* A count that takes the opacity channel whether or not the image has matte.
CountRequestedChannels(image, channel) ==
  LET channels == Bit(RedChannel \in channel) + Bit(GreenChannel \in channel)
                  + Bit(BlueChannel \in channel) + Bit(OpacityChannel \in channel)
                  + Bit(IndexChannel \in channel /\ image.colorspace = "CMYK")
  IN IF channels = 0 THEN 1 ELSE channels
GetNumberChannels(image, channel) ==
  LET channels == Bit(RedChannel \in channel) + Bit(GreenChannel \in channel)
                  + Bit(BlueChannel \in channel)
                  + Bit(OpacityChannel \in channel /\ image.matte)
                  + Bit(IndexChannel \in channel /\ image.colorspace = "CMYK")
  IN IF channels = 0 THEN 1 ELSE channels

\* A validation that accepts every pair.
ValidateNothing(image, reconstruct_image) == TRUE
ValidateImageMorphology(image, reconstruct_image) ==
  GetNumberChannels(image, DefaultChannels)
    = GetNumberChannels(reconstruct_image, DefaultChannels)

\* ------------------------------------------------------------ pixel deltas
RECURSIVE Sum(_, _)
Sum(f, S) ==
  IF S = {} THEN 0
  ELSE LET x == CHOOSE x \in S : TRUE IN f[x] + Sum(f, S \ {x})

RECURSIVE Maximum(_, _)
Maximum(f, S) ==
  IF S = {} THEN 0
  ELSE LET x == CHOOSE x \in S : TRUE IN MagickMax(f[x], Maximum(f, S \ {x}))

\* QuantumRange*Sa: QuantumRange*QuantumScale*(matte ? GetPixelAlpha(p) :
\* QuantumRange-OpaqueOpacity).
Alpha(matte, p) ==
  IF matte THEN QuantumRange - p.Opacity ELSE QuantumRange - OpaqueOpacity

\* QuantumRange*(Sa*p-Da*q) for a colour or index channel; QuantumRange*(p-q)
\* for the opacity channel.  The normalized distance is this over QuantumRange^2.
ChannelDelta(sa, da, p, q, c) ==
  IF c = OpacityChannel THEN QuantumRange * (p.Opacity - q.Opacity)
  ELSE sa * p[c] - da * q[c]

Columns(image, reconstruct_image) ==
  MagickMax(image.columns, reconstruct_image.columns)
Rows(image, reconstruct_image) == MagickMax(image.rows, reconstruct_image.rows)
ZeroVector == [s \in Slots |-> 0]

\* ------------------------------------------------------- distortion engine
\* GetFuzzyColorDistance: the squared colour tolerance of the pair, from the
\* configured fuzz of the two images (never less than 1/2).
GetFuzzyColorDistance(image, reconstruct_image) ==
  LET fuzz == MagickMax(image.fuzz, reconstruct_image.fuzz)
  IN IF fuzz = 0 THEN Rat(1, 2) ELSE Rat(fuzz * fuzz, 1)

ChannelOrder == <<RedChannel, GreenChannel, BlueChannel, OpacityChannel, IndexChannel>>
ColorChannels(channel) == channel \cap {RedChannel, GreenChannel, BlueChannel}

\* The channels a metric's pixel loop accumulates: the requested colour
\* channels, opacity under the first condition, index (black) under the second.
Selected(channel, opacity, index) ==
  ColorChannels(channel)
    \cup (IF OpacityChannel \in channel /\ opacity THEN {OpacityChannel} ELSE {})
    \cup (IF IndexChannel \in channel /\ index THEN {IndexChannel} ELSE {})

BothCMYK(image, reconstruct_image) ==
  image.colorspace = "CMYK" /\ reconstruct_image.colorspace = "CMYK"

\* The pixel loops of GetMeanAbsoluteDistortion, GetMeanSquaredDistortion and
\* GetPeakAbsoluteDistortion take Sa from the image and Da from the
\* reconstructed image.
Delta(image, reconstruct_image, x, y, c) ==
  LET p == VirtualPixel(image, x, y)
      q == VirtualPixel(reconstruct_image, x, y)
  IN ChannelDelta(Alpha(image.matte, p), Alpha(reconstruct_image.matte, q), p, q, c)

\* GetAbsoluteDistortion takes both Sa and Da under image->matte.
AbsoluteDelta(image, reconstruct_image, x, y, c) ==
  LET p == VirtualPixel(image, x, y)
      q == VirtualPixel(reconstruct_image, x, y)
  IN ChannelDelta(Alpha(image.matte, p), Alpha(image.matte, q), p, q, c)

\* GetFuzzDistortion compares the opacity of an image without matte as
\* OpaqueOpacity.
FuzzDelta(image, reconstruct_image, x, y, c) ==
  LET p == VirtualPixel(image, x, y)
      q == VirtualPixel(reconstruct_image, x, y)
  IN IF c = OpacityChannel
     THEN QuantumRange * ((IF image.matte THEN p.Opacity ELSE OpaqueOpacity)
                          - (IF reconstruct_image.matte THEN q.Opacity ELSE OpaqueOpacity))
     ELSE ChannelDelta(Alpha(image.matte, p), Alpha(reconstruct_image.matte, q), p, q, c)

AbsoluteChannels(image, reconstruct_image, channel) ==
  Selected(channel, image.matte, image.colorspace = "CMYK")
FuzzChannels(image, reconstruct_image, channel) ==
  Selected(channel, image.matte \/ reconstruct_image.matte,
           BothCMYK(image, reconstruct_image))
MeanAbsoluteChannels(image, reconstruct_image, channel) ==
  Selected(channel, image.matte, image.colorspace = "CMYK")
MeanSquaredChannels(image, reconstruct_image, channel) ==
  Selected(channel, image.matte, BothCMYK(image, reconstruct_image))
PeakAbsoluteChannels(image, reconstruct_image, channel) ==
  Selected(channel, image.matte, BothCMYK(image, reconstruct_image))

\* The fuzz of GetAbsoluteDistortion, as the integer bound on the sum of the
\* squared deltas: distance > fuzz  <=>  sum > this (the deltas carry a
\* factor QuantumRange).
AbsoluteFuzz(image, reconstruct_image, channel) ==
  LET f == GetFuzzyColorDistance(image, reconstruct_image)
      n == MagickMin(GetNumberChannels(image, channel),
                     GetNumberChannels(reconstruct_image, channel))
  IN Rat(n * f.n * QuantumRange * QuantumRange, f.d)

\* distance after the test of channel number i of ChannelOrder at pixel (x, y)
RECURSIVE AbsoluteDistance(_, _, _, _, _, _)
AbsoluteDistance(image, reconstruct_image, act, x, y, i) ==
  IF i = 0 THEN 0
  ELSE AbsoluteDistance(image, reconstruct_image, act, x, y, i - 1)
       + (IF ChannelOrder[i] \in act
          THEN LET pixel == AbsoluteDelta(image, reconstruct_image, x, y, ChannelOrder[i])
               IN pixel * pixel
          ELSE 0)

ChannelIndex(c) == CHOOSE i \in 1..Len(ChannelOrder) : ChannelOrder[i] = c

\* The private channel_distortion of one row of GetAbsoluteDistortion.
AbsoluteRow(image, reconstruct_image, channel, y) ==
  LET act == AbsoluteChannels(image, reconstruct_image, channel)
      fuzz == AbsoluteFuzz(image, reconstruct_image, channel)
      xs == 0..(Columns(image, reconstruct_image) - 1)
      exceeds(x, c) ==
        c \in act
        /\ RatLess(fuzz, Rat(AbsoluteDistance(image, reconstruct_image, act, x, y,
                                              ChannelIndex(c)), 1))
      difference(x) == \E c \in CompositeChannels : exceeds(x, c)
  IN [s \in Slots |->
        IF s = Composite THEN Cardinality({x \in xs : difference(x)})
        ELSE Cardinality({x \in xs : exceeds(x, s)})]

\* The private channel_distortion of one row of a summing metric: term(d) of
\* the delta of every accumulated channel of every pixel of the row, into the
\* channel's slot and into the Composite slot.
SquaredTerm(d) == d * d
AbsTerm(d) == Abs(d)
SumRow(image, reconstruct_image, act, y, D(_, _, _, _, _), term(_)) ==
  LET xs == 0..(Columns(image, reconstruct_image) - 1)
      at(x, c) == term(D(image, reconstruct_image, x, y, c))
  IN [s \in Slots |->
        IF s = Composite
        THEN Sum([x \in xs |-> Sum([c \in act |-> at(x, c)], act)], xs)
        ELSE IF s \in act THEN Sum([x \in xs |-> at(x, s)], xs) ELSE 0]

FuzzRow(image, reconstruct_image, channel, y) ==
  SumRow(image, reconstruct_image, FuzzChannels(image, reconstruct_image, channel),
         y, FuzzDelta, SquaredTerm)
MeanAbsoluteRow(image, reconstruct_image, channel, y) ==
  SumRow(image, reconstruct_image,
         MeanAbsoluteChannels(image, reconstruct_image, channel), y, Delta, AbsTerm)
\* A row whose Composite slot counts the pixels that differ.
CombinedBooleanRow(image, reconstruct_image, channel, y) ==
  AbsoluteRow(image, reconstruct_image, channel, y)
MeanSquaredRow(image, reconstruct_image, channel, y) ==
  SumRow(image, reconstruct_image,
         MeanSquaredChannels(image, reconstruct_image, channel), y, Delta, SquaredTerm)

\* The private channel_distortion of one row of GetPeakAbsoluteDistortion.
PeakAbsoluteRow(image, reconstruct_image, channel, y) ==
  LET act == PeakAbsoluteChannels(image, reconstruct_image, channel)
      xs == 0..(Columns(image, reconstruct_image) - 1)
      at(x, c) == Abs(Delta(image, reconstruct_image, x, y, c))
  IN [s \in Slots |->
        IF s = Composite
        THEN Maximum([x \in xs |-> Maximum([c \in act |-> at(x, c)], act)], xs)
        ELSE IF s \in act THEN Maximum([x \in xs |-> at(x, s)], xs) ELSE 0]

\* GetImageChannelStatistics, as far as the correlation reads it: for a channel
\* of an image of N pixels, S the sum of the channel (mean S/N) and
\* N*sum(p^2) - S^2 (variance over N^2).
Area(img) == img.columns * img.rows
ChannelSum(img, c) ==
  Sum([pos \in Positions(img.columns, img.rows) |-> img.pixels[pos][c]],
      Positions(img.columns, img.rows))
ChannelVariance(img, c) ==
  Area(img) * Sum([pos \in Positions(img.columns, img.rows) |->
                     img.pixels[pos][c] * img.pixels[pos][c]],
                  Positions(img.columns, img.rows))
  - ChannelSum(img, c) * ChannelSum(img, c)

\* GetImageChannelPerceptualHash: the moments P and Q of a channel.
PerceptualMoments(img, c) == <<ChannelSum(img, c), ChannelVariance(img, c)>>

NormalizedCrossCorrelationChannels(image, reconstruct_image, channel) ==
  Selected(channel, image.matte, BothCMYK(image, reconstruct_image))
MeanErrorPerPixelChannels(image, reconstruct_image, channel) ==
  Selected(channel, image.matte, BothCMYK(image, reconstruct_image))
PerceptualHashChannels(image, reconstruct_image, channel) ==
  Selected(channel, image.matte /\ reconstruct_image.matte,
           BothCMYK(image, reconstruct_image))

\* One row of GetNormalizedCrossCorrelationDistortion: per channel the sum of
\* (Sa*p - mean)*(Da*q - mean'), times (N*QuantumRange)*(N'*QuantumRange).
NormalizedCrossCorrelationRow(image, reconstruct_image, channel, y) ==
  LET act == NormalizedCrossCorrelationChannels(image, reconstruct_image, channel)
      xs == 0..(Columns(image, reconstruct_image) - 1)
      side(img, x, c) ==
        LET p == VirtualPixel(img, x, y)
        IN Area(img) * (IF c = OpacityChannel THEN QuantumRange * p.Opacity
                        ELSE Alpha(img.matte, p) * p[c])
           - QuantumRange * ChannelSum(img, c)
  IN [s \in Slots |->
        IF s \in act
        THEN Sum([x \in xs |-> side(image, x, s) * side(reconstruct_image, x, s)], xs)
        ELSE 0]

\* One row of GetMeanErrorPerPixel: the sums of |delta| per channel and
\* Composite, and the row's part of area, mean_error and maximum_error.
MeanErrorPerPixelRow(image, reconstruct_image, channel, y) ==
  SumRow(image, reconstruct_image,
         MeanErrorPerPixelChannels(image, reconstruct_image, channel), y, Delta, AbsTerm)
MeanErrorPerPixelLegacy(image, reconstruct_image, channel, y) ==
  LET act == MeanErrorPerPixelChannels(image, reconstruct_image, channel)
      xs == 0..(Columns(image, reconstruct_image) - 1)
      d(x, c) == Delta(image, reconstruct_image, x, y, c)
  IN [area |-> Cardinality(xs) * Cardinality(act),
      mean_error |-> Sum([x \in xs |-> Sum([c \in act |-> d(x, c) * d(x, c)], act)], xs),
      maximum_error |-> Maximum([x \in xs |-> Maximum([c \in act |-> Abs(d(x, c))], act)], xs)]

\* GetPerceptualHashDistortion: the squared differences of the moments P and
\* Q, per channel and into Composite.
PerceptualHashVector(image, reconstruct_image, channel) ==
  LET act == PerceptualHashChannels(image, reconstruct_image, channel)
      diff(c) ==
        LET a == PerceptualMoments(image, c)
            b == PerceptualMoments(reconstruct_image, c)
        IN (b[1] - a[1]) * (b[1] - a[1]) + (b[2] - a[2]) * (b[2] - a[2])
  IN [s \in Slots |->
        IF s = Composite THEN Sum([c \in act |-> diff(c)], act)
        ELSE IF s \in act THEN diff(s) ELSE 0]

\* --------------------------------------------------------------- metrics
AbsoluteErrorMetric == "AbsoluteError"
FuzzErrorMetric == "Fuzz"
MeanAbsoluteErrorMetric == "MeanAbsoluteError"
MeanErrorPerPixelMetric == "MeanErrorPerPixel"
MeanSquaredErrorMetric == "MeanSquaredError"
NormalizedCrossCorrelationErrorMetric == "NormalizedCrossCorrelation"
PeakAbsoluteErrorMetric == "PeakAbsoluteError"
PeakSignalToNoiseRatioMetric == "PeakSignalToNoiseRatio"
PerceptualHashErrorMetric == "PerceptualHash"
RootMeanSquaredErrorMetric == "RootMeanSquaredError"
UndefinedErrorMetric == "Undefined"
Metrics ==
  {AbsoluteErrorMetric, FuzzErrorMetric, MeanAbsoluteErrorMetric,
   MeanErrorPerPixelMetric, MeanSquaredErrorMetric,
   NormalizedCrossCorrelationErrorMetric, PeakAbsoluteErrorMetric,
   PeakSignalToNoiseRatioMetric, PerceptualHashErrorMetric,
   RootMeanSquaredErrorMetric}

\* The row loop the switch of GetImageChannelDistortion runs for a metric.
MetricLoop(metric) ==
  CASE metric = AbsoluteErrorMetric -> "GetAbsoluteDistortion"
    [] metric = FuzzErrorMetric -> "GetFuzzDistortion"
    [] metric = MeanAbsoluteErrorMetric -> "GetMeanAbsoluteDistortion"
    [] metric = MeanErrorPerPixelMetric -> "GetMeanErrorPerPixel"
    [] metric \in {MeanSquaredErrorMetric, PeakSignalToNoiseRatioMetric,
                   RootMeanSquaredErrorMetric} -> "GetMeanSquaredDistortion"
    [] metric = PeakAbsoluteErrorMetric -> "GetPeakAbsoluteDistortion"
    [] metric = PerceptualHashErrorMetric -> "GetPerceptualHashDistortion"
    [] OTHER -> "GetNormalizedCrossCorrelationDistortion"

\* The loops under "#pragma omp parallel for".
ParallelLoops ==
  {"GetAbsoluteDistortion", "GetFuzzDistortion", "GetMeanAbsoluteDistortion",
   "GetMeanSquaredDistortion", "GetPeakAbsoluteDistortion"}
\* The loops that leave at the first failed row (break); the others go on to
\* the next row (continue).
BreakingLoops == {"GetMeanErrorPerPixel", "IsImagesEqual"}

RowVector(loop, image, reconstruct_image, channel, y) ==
  CASE loop = "GetAbsoluteDistortion" -> AbsoluteRow(image, reconstruct_image, channel, y)
    [] loop = "GetFuzzDistortion" -> FuzzRow(image, reconstruct_image, channel, y)
    [] loop = "GetMeanAbsoluteDistortion" ->
         MeanAbsoluteRow(image, reconstruct_image, channel, y)
    [] loop = "GetMeanErrorPerPixel" ->
         MeanErrorPerPixelRow(image, reconstruct_image, channel, y)
    [] loop = "GetMeanSquaredDistortion" ->
         MeanSquaredRow(image, reconstruct_image, channel, y)
    [] loop = "GetPeakAbsoluteDistortion" ->
         PeakAbsoluteRow(image, reconstruct_image, channel, y)
    [] OTHER -> NormalizedCrossCorrelationRow(image, reconstruct_image, channel, y)

\* The fold of a row's private vector into the shared one: a maximum per slot
\* in GetPeakAbsoluteDistortion, a sum per slot elsewhere.
FoldMax(distortion, channel_distortion) ==
  [s \in Slots |-> MagickMax(distortion[s], channel_distortion[s])]
\* A fold that stores the row's vector instead of adding it.
FoldStore(distortion, channel_distortion) ==
  [s \in Slots |-> channel_distortion[s]]
FoldSum(distortion, channel_distortion) ==
  [s \in Slots |-> distortion[s] + channel_distortion[s]]
Fold(loop, distortion, channel_distortion) ==
  IF loop = "GetPeakAbsoluteDistortion"
  THEN FoldMax(distortion, channel_distortion)
  ELSE FoldSum(distortion, channel_distortion)

\* ------------------------------------------- the code after the row loops
Q2 == QuantumRange * QuantumRange
Q4 == Q2 * Q2

RECURSIVE GCD(_, _)
GCD(a, b) == IF b = 0 THEN a ELSE GCD(b, a % b)
Reduce(n, d) == LET g == GCD(Abs(n), d) IN Rat(n \div g, d \div g)
RatAdd(a, b) ==
  LET g == GCD(a.d, b.d)
  IN Reduce(a.n * (b.d \div g) + b.n * (a.d \div g), (a.d \div g) * b.d)
RECURSIVE RatSum(_, _)
RatSum(f, S) ==
  IF S = {} THEN Zero
  ELSE LET x == CHOOSE x \in S : TRUE IN RatAdd(f[x], RatSum(f, S \ {x}))

\* fabs(x) < MagickEpsilon: every non-zero value of the modelled quantum depth
\* and image sizes is above MagickEpsilon.
\* A test that takes no value for zero.
BelowNothing(v) == FALSE
BelowEpsilon(v) == v.n = 0

\* 10*log10(1) - 10*log10(x), or INFINITY under MagickEpsilon
Decibel(v) == IF BelowEpsilon(v) THEN Infinity ELSE [k |-> "db", n |-> v.n, d |-> v.d]

\* The slots the code after a loop rewrites: the requested colour channels,
\* opacity with image->matte, black with a CMYK image.
Rewritten(image, channel) ==
  Selected(channel, image.matte, image.colorspace = "CMYK")

AbsoluteFinish(image, reconstruct_image, channel, distortion) ==
  [s \in Slots |-> Rat(distortion[s], 1)]

PeakAbsoluteFinish(image, reconstruct_image, channel, distortion) ==
  [s \in Slots |-> Rat(distortion[s], Q2)]

\* A finish that leaves the Composite slot as the mean over the area alone.
MeanOverArea(image, reconstruct_image, channel, distortion) ==
  LET area == Columns(image, reconstruct_image) * Rows(image, reconstruct_image)
  IN [s \in Slots |-> Rat(distortion[s], Q2 * area)]

MeanAbsoluteFinish(image, reconstruct_image, channel, distortion) ==
  LET area == Columns(image, reconstruct_image) * Rows(image, reconstruct_image)
  IN [s \in Slots |->
        IF s = Composite
        THEN Rat(distortion[s], Q2 * area * GetNumberChannels(image, channel))
        ELSE Rat(distortion[s], Q2 * area)]

MeanSquaredFinish(image, reconstruct_image, channel, distortion) ==
  LET area == Columns(image, reconstruct_image) * Rows(image, reconstruct_image)
  IN [s \in Slots |->
        IF s = Composite
        THEN Rat(distortion[s], Q4 * area * GetNumberChannels(image, channel))
        ELSE Rat(distortion[s], Q4 * area)]

FuzzFinish(image, reconstruct_image, channel, distortion) ==
  LET v == MeanSquaredFinish(image, reconstruct_image, channel, distortion)
  IN [v EXCEPT ![Composite] = Sqrt(v[Composite])]

\* A finish that takes the square root of the Composite slot alone.
SquareRootOfComposite(image, reconstruct_image, channel, distortion) ==
  LET v == MeanSquaredFinish(image, reconstruct_image, channel, distortion)
  IN [v EXCEPT ![Composite] = Sqrt(v[Composite])]

RootMeanSquaredFinish(image, reconstruct_image, channel, distortion) ==
  LET v == MeanSquaredFinish(image, reconstruct_image, channel, distortion)
  IN [s \in Slots |->
        IF s = Composite \/ s \in Rewritten(image, channel) THEN Sqrt(v[s]) ELSE v[s]]

PeakSignalToNoiseRatioFinish(image, reconstruct_image, channel, distortion) ==
  LET v == MeanSquaredFinish(image, reconstruct_image, channel, distortion)
  IN [s \in Slots |->
        IF s = Composite \/ s \in Rewritten(image, channel) THEN Decibel(v[s]) ELSE v[s]]

\* GetMeanErrorPerPixel leaves the sums of the unnormalized |Sa*p-Da*q|.
MeanErrorPerPixelFinish(image, reconstruct_image, channel, distortion) ==
  [s \in Slots |-> Rat(distortion[s], QuantumRange)]

\* gamma*x with gamma=PerceptibleReciprocal(area): zero for no area
PerArea(n, d, area) == IF area = 0 \/ n = 0 THEN Zero ELSE Rat(n, d * area)
LegacyError(distortion, legacy) ==
  [mean_error_per_pixel |-> PerArea(distortion[Composite], QuantumRange, legacy.area),
   normalized_mean_error |-> PerArea(legacy.mean_error, Q4, legacy.area),
   normalized_maximum_error |-> Rat(legacy.maximum_error, Q2)]

PerceptualHashFinish(image, reconstruct_image, channel, distortion) ==
  [s \in Slots |-> Rat(distortion[s], 1)]

\* The square of a channel's correlation: the folded sum over the area, times
\* QuantumRange*PerceptibleReciprocal(stddev*stddev'), squared.  A zero
\* standard deviation makes the reciprocal 1/MagickEpsilon: the value is zero
\* for a zero sum and beyond every other value otherwise.
CorrelationSquared(image, reconstruct_image, c, sum) ==
  LET area == Columns(image, reconstruct_image) * Rows(image, reconstruct_image)
      v == ChannelVariance(image, c) * ChannelVariance(reconstruct_image, c)
  IN IF sum = 0 THEN Zero
     ELSE IF v = 0 THEN MagickMaximumValue
     ELSE LET r == Reduce(Abs(sum), area * Q2) IN Reduce(r.n * r.n, r.d * r.d * v)

NormalizedCrossCorrelationFinish(image, reconstruct_image, channel, distortion) ==
  LET sq == [c \in CompositeChannels |->
               CorrelationSquared(image, reconstruct_image, c, distortion[c])]
      sel == Rewritten(image, channel)
      n == GetNumberChannels(image, channel)
      total == RatSum([c \in sel |-> sq[c]], sel)
  IN [s \in Slots |->
        IF s = Composite
        THEN IF \E c \in sel : sq[c].k = "max" THEN MagickMaximumValue
             ELSE Sqrt(Reduce(total.n, total.d * n))
        ELSE IF sq[s].k = "max" THEN sq[s]
        ELSE [k |-> IF distortion[s] < 0 THEN "nsqrt" ELSE "sqrt",
              n |-> sq[s].n, d |-> sq[s].d]]

\* The vector a metric leaves in channel_distortion from the folded sums.
Finish(metric, image, reconstruct_image, channel, distortion) ==
  CASE metric = AbsoluteErrorMetric ->
         AbsoluteFinish(image, reconstruct_image, channel, distortion)
    [] metric = FuzzErrorMetric ->
         FuzzFinish(image, reconstruct_image, channel, distortion)
    [] metric = MeanAbsoluteErrorMetric ->
         MeanAbsoluteFinish(image, reconstruct_image, channel, distortion)
    [] metric = MeanErrorPerPixelMetric ->
         MeanErrorPerPixelFinish(image, reconstruct_image, channel, distortion)
    [] metric = MeanSquaredErrorMetric ->
         MeanSquaredFinish(image, reconstruct_image, channel, distortion)
    [] metric = PeakAbsoluteErrorMetric ->
         PeakAbsoluteFinish(image, reconstruct_image, channel, distortion)
    [] metric = PeakSignalToNoiseRatioMetric ->
         PeakSignalToNoiseRatioFinish(image, reconstruct_image, channel, distortion)
    [] metric = PerceptualHashErrorMetric ->
         PerceptualHashFinish(image, reconstruct_image, channel, distortion)
    [] metric = RootMeanSquaredErrorMetric ->
         RootMeanSquaredFinish(image, reconstruct_image, channel, distortion)
    [] OTHER ->
         NormalizedCrossCorrelationFinish(image, reconstruct_image, channel, distortion)

\* The rows of a scan in the order one thread takes them, folded from row 0.
RECURSIVE FoldRows(_, _, _, _, _)
FoldRows(loop, image, reconstruct_image, channel, n) ==
  IF n = 0 THEN ZeroVector
  ELSE Fold(loop, FoldRows(loop, image, reconstruct_image, channel, n - 1),
            RowVector(loop, image, reconstruct_image, channel, n - 1))

\* What a metric computes when no row fails and one thread runs the loop.
SequentialDistortion(metric, image, reconstruct_image, channel) ==
  Finish(metric, image, reconstruct_image, channel,
         IF metric = PerceptualHashErrorMetric
         THEN PerceptualHashVector(image, reconstruct_image, channel)
         ELSE FoldRows(MetricLoop(metric), image, reconstruct_image, channel,
                       Rows(image, reconstruct_image)))

\* ------------------------------------------- the pixels of the renderer
\* IsMagickColorSimilar of two MagickPixelPackets under a zero fuzz: the
\* colours, the opacity of an image with matte and the index of a CMYK image
\* are the same.
Packet(img, x, y) ==
  LET p == VirtualPixel(img, x, y)
  IN [p EXCEPT !.Opacity = IF img.matte THEN @ ELSE OpaqueOpacity,
               !.Index = IF img.colorspace = "CMYK" THEN @ ELSE 0]
IsMagickColorSimilar(image, reconstruct_image, x, y) ==
  Packet(image, x, y) = Packet(reconstruct_image, x, y)

\* difference of one pixel: under CompositeChannels the colours are compared
\* as a whole, else channel by channel against fuzz (not summed up).
Difference(image, reconstruct_image, channel, x, y) ==
  IF channel = CompositeChannels
  THEN ~IsMagickColorSimilar(image, reconstruct_image, x, y)
  ELSE LET fuzz == GetFuzzyColorDistance(image, reconstruct_image)
           act == Selected(channel, image.matte, image.colorspace = "CMYK")
       IN \E c \in act :
            LET distance == AbsoluteDelta(image, reconstruct_image, x, y, c)
            IN RatLess(fuzz, Rat(distance * distance, Q2))

\* A row painted with the lowlight colour whatever the pixels are.
LowlightRow(image, reconstruct_image, channel, y) ==
  [x \in 0..(Columns(image, reconstruct_image) - 1) |-> "lowlight"]
HighlightRow(image, reconstruct_image, channel, y) ==
  [x \in 0..(Columns(image, reconstruct_image) - 1) |->
     IF Difference(image, reconstruct_image, channel, x, y)
     THEN "highlight" ELSE "lowlight"]

\* -------------------------------------------------------- IsImagesEqual
\* One row of IsImagesEqual: the sums over the raw differences p-q (kept times
\* QuantumRange, as the deltas of the metrics are) of the colours, of the
\* opacity with image->matte and of the index of two CMYK images.
IsImagesEqualRow(image, reconstruct_image, y) ==
  LET act == Selected(CompositeChannels, image.matte, BothCMYK(image, reconstruct_image))
      xs == 0..(Columns(image, reconstruct_image) - 1)
      d(x, c) == QuantumRange * Abs(VirtualPixel(image, x, y)[c]
                                    - VirtualPixel(reconstruct_image, x, y)[c])
  IN [mean_error_per_pixel |-> Sum([x \in xs |-> Sum([c \in act |-> d(x, c)], act)], xs),
      area |-> Cardinality(xs) * Cardinality(act),
      mean_error |-> Sum([x \in xs |-> Sum([c \in act |-> d(x, c) * d(x, c)], act)], xs),
      maximum_error |-> Maximum([x \in xs |-> Maximum([c \in act |-> d(x, c)], act)], xs)]

\* ------------------------------------------------------ similarity search
\* SetGeometry(reference,offset): the rectangle of the reference at the origin.
SetGeometry(reference) ==
  [x |-> 0, y |-> 0, width |-> reference.columns, height |-> reference.rows]

\* A threshold that defaults to 0.
ThresholdOrZero(artifact) == IF artifact = NoArtifact THEN Zero ELSE artifact
\* similarity_threshold: -1, or the "compare:similarity-threshold" artifact.
ThresholdOf(artifact) == IF artifact = NoArtifact THEN Rat(-1, 1) ELSE artifact

\* The candidate offsets: where the reference fits inside the image.
Candidates(image, reference) ==
  (0..(image.columns - reference.columns)) \X (0..(image.rows - reference.rows))

\* GetSimilarityMetric: the Composite distortion of the crop of the image at
\* the offset against the reference.
GetSimilarityMetric(image, reference, metric, x_offset, y_offset) ==
  SequentialDistortion(metric,
                       CropImage(image, reference.columns, reference.rows,
                                 x_offset, y_offset),
                       reference, CompositeChannels)[Composite]

\* The sums a row loop leaves when only the rows of R were folded.
RECURSIVE FoldSome(_, _, _, _, _)
FoldSome(loop, image, reconstruct_image, channel, R) ==
  IF R = {} THEN ZeroVector
  ELSE LET y == CHOOSE y \in R : TRUE
       IN Fold(loop, FoldSome(loop, image, reconstruct_image, channel, R \ {y}),
               RowVector(loop, image, reconstruct_image, channel, y))

\* What GetSimilarityMetric may return for a candidate: the distortion of the
\* crop ("ok"); 0.0 when CropImage returns NULL ("crop"); and, when
\* GetImageDistortion fails on a row ("engine"), whatever the metric leaves in
\* *distortion from the rows folded before, since the status is dropped.
Evaluations(image, reference, metric, x_offset, y_offset) ==
  LET crop == CropImage(image, reference.columns, reference.rows, x_offset, y_offset)
      rows == 0..(Rows(crop, reference) - 1)
  IN [ok |-> {GetSimilarityMetric(image, reference, metric, x_offset, y_offset)},
      crop |-> {Zero},
      engine |->
        { Finish(metric, crop, reference, CompositeChannels,
                 IF metric = PerceptualHashErrorMetric THEN ZeroVector
                 ELSE FoldSome(MetricLoop(metric), crop, reference,
                               CompositeChannels, R))[Composite] :
            R \in (SUBSET rows) \ {rows} }]

\* 1.0-similarity
OneMinus(v) ==
  CASE v.k = "sqrt" -> [k |-> "oms", n |-> v.n, d |-> v.d]
    [] v.k = "rat" -> Rat(v.d - v.n, v.d)
    [] v.k = "max" -> [k |-> "min", n |-> 1, d |-> 1]

\* The score a candidate is compared by.
Normalized(metric, similarity) ==
  IF metric \in {NormalizedCrossCorrelationErrorMetric, UndefinedErrorMetric}
  THEN OneMinus(similarity) ELSE similarity
Score(image, reference, metric, x, y) ==
  Normalized(metric, GetSimilarityMetric(image, reference, metric, x, y))

\* ClampToQuantum(QuantumRange-QuantumRange*similarity): the largest k of
\* 0..QuantumRange with k <= QuantumRange-QuantumRange*similarity+1/2.  A
\* decibel value is 0 for a mean squared error of 1 and beyond
\* 1+1/(2*QuantumRange) for one of at most 3/4.
ClampToQuantum(similarity) ==
  CASE similarity.k = "db" /\ similarity.n = similarity.d -> QuantumRange
    [] similarity.k = "db" /\ 4 * similarity.n <= 3 * similarity.d -> 0
    [] similarity.k # "db" ->
         LET reach == {k \in 1..QuantumRange :
                          LessEq(similarity,
                                 Rat(2 * QuantumRange - 2 * k + 1, 2 * QuantumRange))}
         IN IF reach = {} THEN 0 ELSE CHOOSE k \in reach : \A j \in reach : j <= k

\* A map that is black whatever the score is.
DarkPixel(metric, similarity) == 0

\* The pixel of the confidence map: the perceptual hash is scaled first,
\* MagickMin(0.01*similarity,1.0).
ConfidencePixel(metric, similarity) ==
  ClampToQuantum(IF metric = PerceptualHashErrorMetric
                 THEN IF RatLess(One, Rat(similarity.n, 100 * similarity.d))
                      THEN One ELSE Rat(similarity.n, 100 * similarity.d)
                 ELSE similarity)

\* The scan as one thread makes it, candidate by candidate in row order, for the
\* first n candidates: the best score and its offset.
RECURSIVE SequentialScan(_, _, _, _)
SequentialScan(image, reference, metric, n) ==
  IF n = 0 THEN [similarity_metric |-> MagickMaximumValue, offset |-> [x |-> 0, y |-> 0]]
  ELSE LET before == SequentialScan(image, reference, metric, n - 1)
           columns == image.columns - reference.columns + 1
           x == (n - 1) % columns
           y == (n - 1) \div columns
           similarity == Score(image, reference, metric, x, y)
       IN IF Less(similarity, before.similarity_metric)
          THEN [similarity_metric |-> similarity, offset |-> [x |-> x, y |-> y]]
          ELSE before

\* FormatImageProperty(image,"distortion",...): the two images after it, of
\* which the first gets the property.
FormatImagePropertyOfReference(image, reconstruct_image) ==
  <<image, [reconstruct_image EXCEPT !.properties = @ \cup {"distortion"}]>>
FormatImageProperty(image, reconstruct_image) ==
  <<[image EXCEPT !.properties = @ \cup {"distortion"}], reconstruct_image>>

\* ================================================================== state
VARIABLES
  op,                  \* the public operation called
  metric,              \* its metric argument
  channel,             \* its channel argument
  image,               \* its image argument
  reconstruct_image,   \* its reconstruct_image (reference) argument
  pc,                  \* where the calling thread is: "call", a row loop, "done"
  loop,                \* the row loop that runs, "none" outside one
  status,              \* the loop's shared status flag
  distortion,          \* the loop's shared vector of folded sums
  legacy,              \* area, mean_error and maximum_error of the sequential loops
  thread,              \* per thread: its place in the loop and its private variables
  result,              \* what the call hands back to its caller
  highlight,           \* the rows of highlight_image (the canvas of the renderer)
  similarity_metric,   \* *similarity_metric of SimilarityMetricImage
  offset,              \* *offset of SimilarityMetricImage
  similarity_image,    \* the rows of the confidence map
  history              \* what happened so far (for stating properties only)

vars ==
  <<op, metric, channel, image, reconstruct_image, pc, loop, status, distortion,
    legacy, thread, result, highlight, similarity_metric, offset, similarity_image,
    history>>

Threads == 1..NumThreads
CompareImageChannelsOp == "compareChannels"
GetImageChannelDistortionOp == "distortion"
GetImageChannelDistortionsOp == "distortionVector"
IsImagesEqualOp == "imagesEqual"
SimilarityMetricImageOp == "findBestMatch"

NoLegacy == [area |-> 0, mean_error |-> 0, maximum_error |-> 0]
\* What a call hands back: its status, *distortion, whether a vector or an
\* image came back ("returned") or NULL did ("null"), and the exception raised.
Unwritten == [k |-> "unset", n |-> 0, d |-> 1]
NoResult ==
  [status |-> "none", distortion |-> Unwritten, vector |-> "none", image |-> "none",
   exception |-> "none"]
\* The arguments as the call received them, and what the call did so far.
Called(i, r) ==
  [image |-> i, reconstruct_image |-> r, rows_read |-> 0, folded |-> <<>>,
   vector |-> ZeroVector, scored |-> <<>>, exits |-> 0, found |-> FALSE,
   after_found |-> 0, crossed |-> FALSE, after_crossing |-> [t \in Threads |-> 0],
   failed |-> 0, failing |-> {}, used_failed |-> FALSE, unread |-> {},
   after_failure |-> 0, painted |-> <<>>, unsynced |-> {}]
\* status is shared by the threads of a loop and is read and written with no
\* flush between the threads: a thread keeps its own view of it, MagickTrue
\* until the thread stores MagickFalse or reads the MagickFalse of another.
IdleThread ==
  [pc |-> "done", y |-> 0, last |-> 0, x |-> 0, channel_distortion |-> ZeroVector,
   similarity |-> Zero, best |-> Zero, status |-> TRUE]
Cleared(th) == [th EXCEPT !.status = FALSE]

\* "#pragma omp parallel for schedule(static)": thread t of n takes an equal
\* share of consecutive rows; a loop without the pragma runs in one thread.
Share(rws, n) == (rws + n - 1) \div n
FirstRow(t, rws, n) == MagickMin(rws, (t - 1) * Share(rws, n))
LastRow(t, rws, n) == MagickMin(rws, t * Share(rws, n))
StartThreads(rws, n) ==
  [t \in Threads |->
     IF t <= n /\ FirstRow(t, rws, n) < LastRow(t, rws, n)
     THEN [IdleThread EXCEPT !.pc = "row", !.y = FirstRow(t, rws, n),
                             !.last = LastRow(t, rws, n)]
     ELSE IdleThread]
LoopThreads(lp) == IF lp \in ParallelLoops THEN NumThreads ELSE 1

\* A thread goes on to its next row, or leaves the loop after its last.
NextRow(th) ==
  IF th.y + 1 < th.last
  THEN [th EXCEPT !.pc = "row", !.y = th.y + 1]
  ELSE [th EXCEPT !.pc = "done", !.y = th.y + 1]

\* ----------------------------------------------------------------- inputs
\* An image of one colour, or of one colour with one pixel of another.
OneOff(pal, cols, rws, m, cs) ==
  { MakeImage(cols, rws, m, cs, [pos \in Positions(cols, rws) |->
                                   IF pos = k THEN b ELSE a]) :
      a \in pal, b \in pal, k \in Positions(cols, rws) }
Uniform(pal, cols, rws, m, cs) ==
  { MakeImage(cols, rws, m, cs, [pos \in Positions(cols, rws) |-> a]) : a \in pal }

Morphologies == {<<FALSE, "sRGB">>, <<TRUE, "sRGB">>, <<FALSE, "CMYK">>, <<TRUE, "CMYK">>}
Masks ==
  {CompositeChannels, {RedChannel, GreenChannel, BlueChannel},
   {GreenChannel, OpacityChannel}}

InitCall ==
  /\ pc = "call"
  /\ loop = "none"
  /\ status = TRUE
  /\ distortion = ZeroVector
  /\ legacy = NoLegacy
  /\ thread = [t \in Threads |-> IdleThread]
  /\ result = NoResult
  /\ highlight = <<>>
  /\ similarity_metric = "unset"
  /\ offset = "unset"
  /\ similarity_image = <<>>

\* ------------------------------------------ GetImageChannelDistortion(s)
MorphologyDiffers ==
  metric # PerceptualHashErrorMetric
  /\ ~ValidateImageMorphology(image, reconstruct_image)

MetricLoops ==
  ParallelLoops \cup {"GetMeanErrorPerPixel", "GetNormalizedCrossCorrelationDistortion",
                      "GetPerceptualHashDistortion"}

\* The switch on the metric: the row loop starts on zeroed sums (the
\* perceptual hash has no row loop and leaves its sums at once).
StartMetric ==
  LET lp == MetricLoop(metric)
  IN /\ pc' = "loop"
     /\ loop' = lp
     /\ status' = TRUE
     /\ legacy' = NoLegacy
     /\ IF lp = "GetPerceptualHashDistortion"
        THEN /\ distortion' = PerceptualHashVector(image, reconstruct_image, channel)
             /\ thread' = [t \in Threads |-> IdleThread]
        ELSE /\ distortion' = ZeroVector
             /\ thread' = StartThreads(Rows(image, reconstruct_image), LoopThreads(lp))

\* CompareImageChannels up to its call of GetImageChannelDistortion.
CompareImageChannelsBegin ==
  /\ pc = "call"
  /\ op = CompareImageChannelsOp
  /\ IF MorphologyDiffers
     THEN /\ pc' = "done"
          /\ result' = [NoResult EXCEPT !.status = FALSE, !.distortion = Zero,
                                        !.image = "null",
                                        !.exception = "ImageMorphologyDiffers"]
          /\ UNCHANGED <<loop, status, distortion, legacy, thread>>
     ELSE /\ StartMetric
          /\ result' = [NoResult EXCEPT !.distortion = Zero]
  /\ UNCHANGED <<op, metric, channel, image, reconstruct_image, highlight,
                 similarity_metric, offset, similarity_image, history>>

\* GetImageChannelDistortion up to its switch on the metric.
GetImageChannelDistortionBegin ==
  /\ pc = "call"
  /\ op = GetImageChannelDistortionOp
  /\ IF MorphologyDiffers
     THEN /\ pc' = "done"
          /\ result' = [NoResult EXCEPT !.status = FALSE, !.distortion = Zero]
          /\ image' = [image EXCEPT !.exception = "ImageMorphologyDiffers"]
          /\ UNCHANGED <<loop, status, distortion, legacy, thread>>
     ELSE /\ StartMetric
          /\ result' = [NoResult EXCEPT !.distortion = Zero]
          /\ UNCHANGED image
  /\ UNCHANGED <<op, metric, channel, reconstruct_image, highlight,
                 similarity_metric, offset, similarity_image, history>>

\* GetImageChannelDistortions up to its switch on the metric.
GetImageChannelDistortionsBegin ==
  /\ pc = "call"
  /\ op = GetImageChannelDistortionsOp
  /\ IF MorphologyDiffers
     THEN /\ pc' = "done"
          /\ result' = [NoResult EXCEPT !.status = FALSE, !.vector = "null"]
          /\ image' = [image EXCEPT !.exception = "ImageMorphologyDiffers"]
          /\ UNCHANGED <<loop, status, distortion, legacy, thread>>
     ELSE /\ StartMetric
          /\ result' = NoResult
          /\ UNCHANGED image
  /\ UNCHANGED <<op, metric, channel, reconstruct_image, highlight,
                 similarity_metric, offset, similarity_image, history>>

InMetricLoop == pc = "loop" /\ loop \in MetricLoops
AtRow(t) == thread[t].pc = "row"

\* "if (status == MagickFalse) continue;"
MetricRowSkip(t) ==
  /\ InMetricLoop
  /\ AtRow(t)
  /\ loop \notin BreakingLoops
  /\ status = FALSE
  /\ thread' = [thread EXCEPT ![t] = NextRow(Cleared(thread[t]))]
  /\ UNCHANGED <<op, metric, channel, image, reconstruct_image, pc, loop, status,
                 distortion, legacy, result, highlight, similarity_metric, offset,
                 similarity_image, history>>

\* GetCacheViewVirtualPixels returns NULL for the row of either image.
MetricRowFail(t) ==
  /\ InMetricLoop
  /\ AtRow(t)
  /\ thread[t].status \/ loop \in BreakingLoops
  /\ status' = FALSE
  /\ thread' = [thread EXCEPT ![t] =
                  IF loop \in BreakingLoops THEN [Cleared(@) EXCEPT !.pc = "done"]
                  ELSE NextRow(Cleared(@))]
  /\ history' = [history EXCEPT !.unread = @ \cup {thread[t].y}]
  /\ UNCHANGED <<op, metric, channel, image, reconstruct_image, pc, loop,
                 distortion, legacy, result, highlight, similarity_metric, offset,
                 similarity_image>>

\* A row of a parallel loop: the pixels are read and the row's private
\* channel_distortion is computed.
MetricRowRead(t) ==
  /\ InMetricLoop
  /\ loop \in ParallelLoops
  /\ AtRow(t)
  /\ thread[t].status
  /\ thread' = [thread EXCEPT ![t].pc = "fold",
                            ![t].channel_distortion =
                               RowVector(loop, image, reconstruct_image, channel,
                                         thread[t].y)]
  /\ history' = [history EXCEPT !.rows_read = @ + 1,
                                !.after_failure = IF status THEN @ ELSE @ + 1]
  /\ UNCHANGED <<op, metric, channel, image, reconstruct_image, pc, loop, status,
                 distortion, legacy, result, highlight, similarity_metric, offset,
                 similarity_image>>

\* "#pragma omp critical (MagickCore_Get...)": a thread enters the named
\* section when no other thread is inside it.
InCritical(t) == thread[t].pc = "critical"
Unguarded(t) == TRUE
CriticalFree(t) == \A u \in Threads \ {t} : ~InCritical(u)
MetricRowEnter(t) ==
  /\ InMetricLoop
  /\ thread[t].pc = "fold"
  /\ CriticalFree(t)
  /\ thread' = [thread EXCEPT ![t].pc = "critical"]
  /\ UNCHANGED <<op, metric, channel, image, reconstruct_image, pc, loop, status,
                 distortion, legacy, result, highlight, similarity_metric, offset,
                 similarity_image, history>>

\* Inside the section the row's vector is folded into the shared one, slot
\* after slot, and the thread leaves the section.
MetricRowFold(t) ==
  /\ InMetricLoop
  /\ InCritical(t)
  /\ distortion' = Fold(loop, distortion, thread[t].channel_distortion)
  /\ thread' = [thread EXCEPT ![t] = NextRow(@)]
  /\ history' = [history EXCEPT !.folded = Append(@, thread[t].y)]
  /\ UNCHANGED <<op, metric, channel, image, reconstruct_image, pc, loop, status,
                 legacy, result, highlight, similarity_metric, offset,
                 similarity_image>>

\* A row of GetMeanErrorPerPixel, which adds to distortion itself.
MeanErrorPerPixelStep(t) ==
  /\ InMetricLoop
  /\ loop = "GetMeanErrorPerPixel"
  /\ AtRow(t)
  /\ LET row == MeanErrorPerPixelLegacy(image, reconstruct_image, channel, thread[t].y)
     IN /\ distortion' = FoldSum(distortion, RowVector(loop, image, reconstruct_image,
                                                      channel, thread[t].y))
        /\ legacy' = [area |-> legacy.area + row.area,
                      mean_error |-> legacy.mean_error + row.mean_error,
                      maximum_error |-> MagickMax(legacy.maximum_error,
                                                  row.maximum_error)]
  /\ thread' = [thread EXCEPT ![t] = NextRow(@)]
  /\ history' = [history EXCEPT !.rows_read = @ + 1, !.folded = Append(@, thread[t].y)]
  /\ UNCHANGED <<op, metric, channel, image, reconstruct_image, pc, loop, status,
                 result, highlight, similarity_metric, offset, similarity_image>>

\* A row of GetNormalizedCrossCorrelationDistortion, which adds to distortion
\* itself and then reports progress: a monitor may answer MagickFalse.
NormalizedCrossCorrelationStep(t) ==
  /\ InMetricLoop
  /\ loop = "GetNormalizedCrossCorrelationDistortion"
  /\ AtRow(t)
  /\ status = TRUE
  /\ distortion' = FoldSum(distortion, RowVector(loop, image, reconstruct_image,
                                                channel, thread[t].y))
  /\ \E proceed \in BOOLEAN :
       /\ image.progress_monitor = "none" => proceed
       /\ status' = proceed
  /\ thread' = [thread EXCEPT ![t] = NextRow(@)]
  /\ history' = [history EXCEPT !.rows_read = @ + 1, !.folded = Append(@, thread[t].y)]
  /\ UNCHANGED <<op, metric, channel, image, reconstruct_image, pc, loop, legacy,
                 result, highlight, similarity_metric, offset, similarity_image>>

AllDone == \A t \in Threads : thread[t].pc = "done"

\* What GetMeanErrorPerPixel leaves in image->error; the other metrics leave
\* the field alone.
ErrorAfter ==
  IF loop = "GetMeanErrorPerPixel" THEN LegacyError(distortion, legacy) ELSE image.error

\* GetImageChannelDistortion after its switch: the Composite slot goes to
\* *distortion and into the "distortion" property of the image, whatever the
\* status is.
GetImageChannelDistortionEnd ==
  /\ InMetricLoop
  /\ AllDone
  /\ op = GetImageChannelDistortionOp
  /\ LET channel_distortion == Finish(metric, image, reconstruct_image, channel, distortion)
     IN /\ result' = [result EXCEPT !.status = status,
                                    !.distortion = channel_distortion[Composite]]
        /\ history' = [history EXCEPT !.vector = channel_distortion]
  /\ image' = FormatImageProperty([image EXCEPT !.error = ErrorAfter],
                                  reconstruct_image)[1]
  /\ reconstruct_image' = FormatImageProperty([image EXCEPT !.error = ErrorAfter],
                                              reconstruct_image)[2]
  /\ pc' = "done"
  /\ UNCHANGED <<op, metric, channel, loop, status, distortion, legacy, thread,
                 highlight, similarity_metric, offset, similarity_image>>

\* GetImageChannelDistortions after its switch: the vector, or NULL for a
\* MagickFalse status.
GetImageChannelDistortionsEnd ==
  /\ InMetricLoop
  /\ AllDone
  /\ op = GetImageChannelDistortionsOp
  /\ LET channel_distortion == Finish(metric, image, reconstruct_image, channel, distortion)
     IN /\ result' = [result EXCEPT !.status = status,
                                    !.vector = IF status THEN "returned" ELSE "null"]
        /\ history' = [history EXCEPT !.vector = channel_distortion]
  /\ image' = [image EXCEPT !.error = ErrorAfter]
  /\ pc' = "done"
  /\ UNCHANGED <<op, metric, channel, reconstruct_image, loop, status, distortion,
                 legacy, thread, highlight, similarity_metric, offset,
                 similarity_image>>

\* CompareImageChannels from the return of GetImageChannelDistortion to its
\* row loop: NULL for a MagickFalse status, else the canvas is made and the
\* loop of the renderer starts.
CompareImageChannelsRender ==
  /\ InMetricLoop
  /\ AllDone
  /\ op = CompareImageChannelsOp
  /\ LET channel_distortion == Finish(metric, image, reconstruct_image, channel, distortion)
     IN /\ result' = [result EXCEPT !.distortion = channel_distortion[Composite],
                                    !.status = IF status THEN @ ELSE FALSE,
                                    !.image = IF status THEN @ ELSE "null"]
        /\ history' = [history EXCEPT !.vector = channel_distortion]
  /\ image' = FormatImageProperty([image EXCEPT !.error = ErrorAfter],
                                  reconstruct_image)[1]
  /\ reconstruct_image' = FormatImageProperty([image EXCEPT !.error = ErrorAfter],
                                              reconstruct_image)[2]
  /\ IF status
     THEN /\ pc' = "loop"
          /\ loop' = "CompareImageChannels"
          /\ thread' = StartThreads(Rows(image, reconstruct_image), NumThreads)
          /\ highlight' = [y \in 0..(Rows(image, reconstruct_image) - 1) |-> "queued"]
     ELSE /\ pc' = "done"
          /\ UNCHANGED <<loop, thread, highlight>>
  /\ UNCHANGED <<op, metric, channel, status, distortion, legacy,
                 similarity_metric, offset, similarity_image>>

\* ------------------------------------------- the loop of CompareImageChannels
InRenderLoop == pc = "loop" /\ loop = "CompareImageChannels"

\* "if (status == MagickFalse) continue;"
RenderRowSkip(t) ==
  /\ InRenderLoop
  /\ AtRow(t)
  /\ status = FALSE
  /\ thread' = [thread EXCEPT ![t] = NextRow(Cleared(@))]
  /\ UNCHANGED <<op, metric, channel, image, reconstruct_image, pc, loop, status,
                 distortion, legacy, result, highlight, similarity_metric, offset,
                 similarity_image, history>>

\* One of the two reads or the queueing of the canvas row returns NULL.
RenderRowFail(t) ==
  /\ InRenderLoop
  /\ AtRow(t)
  /\ thread[t].status
  /\ status' = FALSE
  /\ thread' = [thread EXCEPT ![t] = NextRow(Cleared(@))]
  /\ history' = [history EXCEPT !.unread = @ \cup {thread[t].y}]
  /\ UNCHANGED <<op, metric, channel, image, reconstruct_image, pc, loop,
                 distortion, legacy, result, highlight, similarity_metric, offset,
                 similarity_image>>

\* A row of the canvas is painted and synced; a failed sync clears status.
RenderRowPaint(t) ==
  /\ InRenderLoop
  /\ AtRow(t)
  /\ thread[t].status
  /\ highlight' = [highlight EXCEPT ![thread[t].y] =
                     HighlightRow(image, reconstruct_image, channel, thread[t].y)]
  /\ \E sync \in BOOLEAN :
       /\ status' = IF sync THEN status ELSE FALSE
       /\ thread' = [thread EXCEPT ![t] = NextRow(IF sync THEN @ ELSE Cleared(@))]
       /\ history' = [history EXCEPT
                        !.after_failure = IF status THEN @ ELSE @ + 1,
                        !.painted = Append(@, <<t, thread[t].y>>),
                        !.unsynced = IF sync THEN @ ELSE @ \cup {thread[t].y}]
  /\ UNCHANGED <<op, metric, channel, image, reconstruct_image, pc, loop,
                 distortion, legacy, result, similarity_metric, offset,
                 similarity_image>>

\* "if (status == MagickFalse) difference_image=DestroyImage(difference_image);
\* return(difference_image);"
KeptImage(ok) == "returned"
DifferenceImage(ok) == IF ok THEN "returned" ELSE "null"

\* After the loop: the canvas is composited over the clone and returned, or
\* destroyed for a MagickFalse status.
CompareImageChannelsEnd ==
  /\ InRenderLoop
  /\ AllDone
  /\ result' = [result EXCEPT !.status = status,
                              !.image = DifferenceImage(status)]
  /\ pc' = "done"
  /\ UNCHANGED <<op, metric, channel, image, reconstruct_image, loop, status,
                 distortion, legacy, thread, highlight, similarity_metric, offset,
                 similarity_image, history>>

\* ------------------------------------------------ the distortion operations
\* The calls of distortion, distortionVector and compareChannels: an image of
\* one colour with at most one pixel of another, against its own pixels or an
\* image of one colour, under equal and unequal morphologies.
MetricMorphologies ==
  {<<<<FALSE, "sRGB">>, <<FALSE, "sRGB">>>>, <<<<TRUE, "CMYK">>, <<TRUE, "CMYK">>>>,
   <<<<TRUE, "sRGB">>, <<FALSE, "sRGB">>>>, <<<<FALSE, "CMYK">>, <<TRUE, "sRGB">>>>}
MetricOps ==
  {CompareImageChannelsOp, GetImageChannelDistortionOp, GetImageChannelDistortionsOp}

Monitored(img, mon) == [img EXCEPT !.progress_monitor = mon]

InitMetric ==
  /\ InitCall
  /\ op \in MetricOps
  /\ metric \in Metrics
  /\ channel \in IF op = GetImageChannelDistortionsOp THEN {CompositeChannels} ELSE Masks
  /\ \E m \in MetricMorphologies :
       /\ \E mon \in IF metric = NormalizedCrossCorrelationErrorMetric
                     THEN {"none", "set"} ELSE {"none"} :
            image \in { Monitored(i, mon) :
                          i \in OneOff(Palette, MaxColumns, MaxRows, m[1][1], m[1][2]) }
       /\ reconstruct_image \in
            {MakeImage(MaxColumns, MaxRows, m[2][1], m[2][2], image.pixels)}
              \cup Uniform(Gray, MaxColumns, MaxRows, m[2][1], m[2][2])
  /\ history = Called(image, reconstruct_image)

NextMetric ==
  \/ CompareImageChannelsBegin
  \/ GetImageChannelDistortionBegin
  \/ GetImageChannelDistortionsBegin
  \/ \E t \in Threads : MetricRowSkip(t)
  \/ \E t \in Threads : MetricRowFail(t)
  \/ \E t \in Threads : MetricRowRead(t)
  \/ \E t \in Threads : MetricRowEnter(t)
  \/ \E t \in Threads : MetricRowFold(t)
  \/ \E t \in Threads : MeanErrorPerPixelStep(t)
  \/ \E t \in Threads : NormalizedCrossCorrelationStep(t)
  \/ GetImageChannelDistortionEnd
  \/ GetImageChannelDistortionsEnd
  \/ CompareImageChannelsRender
  \/ \E t \in Threads : RenderRowSkip(t)
  \/ \E t \in Threads : RenderRowFail(t)
  \/ \E t \in Threads : RenderRowPaint(t)
  \/ CompareImageChannelsEnd

SpecMetric == InitMetric /\ [][NextMetric]_vars

\* ------------------------------------------------ properties of the metrics
Done == pc = "done"
SameInput ==
  /\ reconstruct_image.pixels = image.pixels
  /\ reconstruct_image.matte = image.matte
  /\ reconstruct_image.colorspace = image.colorspace
  /\ reconstruct_image.columns = image.columns
  /\ reconstruct_image.rows = image.rows
Succeeded == Done /\ result.status = TRUE
SelfDistortion == op = GetImageChannelDistortionOp /\ SameInput /\ Succeeded

\* C7: for a row-parallel metric and no failed row, the vector the loop leaves
\* after its last fold, whatever the order of the folds was, is the vector of
\* the rows folded one after the other from row 0; distortionVector returns it.
ParallelFoldIsSequential ==
  /\ (InMetricLoop /\ AllDone /\ status /\ loop \in ParallelLoops)
       => Finish(metric, image, reconstruct_image, channel, distortion)
            = SequentialDistortion(metric, image, reconstruct_image, channel)
  /\ (Done /\ op = GetImageChannelDistortionsOp /\ result.status = TRUE
        /\ loop \in ParallelLoops)
       => /\ result.vector = "returned"
          /\ history.vector
               = SequentialDistortion(metric, image, reconstruct_image, channel)

\* C7, reached: distortionVector has returned a vector with a non-zero
\* Composite slot after row 1 was folded before row 0.
ParallelFoldOutOfOrder ==
  /\ Done
  /\ op = GetImageChannelDistortionsOp
  /\ result.status = TRUE
  /\ loop \in ParallelLoops
  /\ history.folded = <<1, 0>>
  /\ ~IsZero(history.vector[Composite])

FailureLeavesDefault ==
  (Done /\ op \in {GetImageChannelDistortionOp, CompareImageChannelsOp}
     /\ result.status = FALSE)
    => IsZero(result.distortion) /\ result.image \in {"none", "null"}

\* C11: for one image pair and one channel mask, the Composite slot that
\* RootMeanSquaredError leaves is the square root of the Composite slot of
\* MeanSquaredError, and so is the slot of every selected channel the image
\* has (opacity with matte, black with CMYK).
RootIsSquareRootOfMean ==
  (Succeeded /\ op \in {GetImageChannelDistortionOp, GetImageChannelDistortionsOp}
     /\ metric = RootMeanSquaredErrorMetric)
    => LET mse == SequentialDistortion(MeanSquaredErrorMetric, history.image,
                                       history.reconstruct_image, channel)
       IN \A s \in {Composite} \cup Rewritten(history.image, channel) :
            history.vector[s] = Sqrt(mse[s])

\* C11, reached: RootMeanSquaredError has ended with success on two images
\* that differ, with a non-zero Composite slot and a non-zero green slot.
RootOfMeanReached ==
  /\ Succeeded
  /\ op = GetImageChannelDistortionsOp
  /\ metric = RootMeanSquaredErrorMetric
  /\ ~IsZero(history.vector[Composite])
  /\ ~IsZero(history.vector[GreenChannel])
  /\ history.vector[GreenChannel].k = "sqrt"

BlackAgainstWhite ==
  /\ ~history.image.matte /\ ~history.reconstruct_image.matte
  /\ channel = {RedChannel, GreenChannel, BlueChannel}
  /\ \A pos \in DOMAIN history.image.pixels : history.image.pixels[pos] = BlackPixel
  /\ \A pos \in DOMAIN history.reconstruct_image.pixels :
       history.reconstruct_image.pixels[pos] = WhitePixel
MetricSucceeded ==
  Succeeded /\ op \in {GetImageChannelDistortionOp, GetImageChannelDistortionsOp}

\* C12: for an all-black image against an all-white one of the same size,
\* neither with matte, under the RGB mask, the Composite slot of
\* MeanAbsoluteError is 1 and that of AbsoluteError is the number of pixels;
\* and for every pair the Composite slot of MeanAbsoluteError is the sum of the
\* slots of the selected channels the image has, over the number of channels
\* of the image under the mask.
MeanAbsoluteIsMeanOfChannels ==
  /\ (MetricSucceeded /\ BlackAgainstWhite /\ metric = MeanAbsoluteErrorMetric)
       => RatEq(history.vector[Composite], One)
  /\ (MetricSucceeded /\ BlackAgainstWhite /\ metric = AbsoluteErrorMetric)
       => RatEq(history.vector[Composite],
                Rat(history.image.columns * history.image.rows, 1))
  /\ (MetricSucceeded /\ metric = MeanAbsoluteErrorMetric)
       => LET sel == Rewritten(history.image, channel)
              total == RatSum([c \in sel |-> history.vector[c]], sel)
          IN RatEq(history.vector[Composite],
                   Rat(total.n, total.d * GetNumberChannels(history.image, channel)))

\* C12, reached: MeanAbsoluteError of the all-black image against the
\* all-white one under the RGB mask has ended with the Composite slot 1.
BlackAgainstWhiteReached ==
  /\ MetricSucceeded
  /\ BlackAgainstWhite
  /\ metric = MeanAbsoluteErrorMetric
  /\ RatEq(history.vector[Composite], One)
  /\ history.image.columns * history.image.rows = 4

\* The rows folded so far, and the threads that read a row and did not fold
\* it yet.
FoldedRows == {history.folded[k] : k \in 1..Len(history.folded)}
Folding == {t \in Threads : thread[t].pc \in {"fold", "critical"}}

\* C20: in a row-parallel metric every row read successfully is folded into
\* the shared vector exactly once (no row is folded twice, every row read is
\* folded or held by the thread about to fold it, and the shared vector is the
\* fold of exactly the rows folded), at most one thread is inside the fold, and
\* a row whose read failed is never folded.
RowsFoldOnce ==
  (InMetricLoop /\ loop \in ParallelLoops) =>
    /\ Cardinality(FoldedRows) = Len(history.folded)
    /\ Len(history.folded) + Cardinality(Folding) = history.rows_read
    /\ \A t \in Folding : thread[t].y \notin FoldedRows
    /\ AllDone => Len(history.folded) = history.rows_read
    /\ distortion = FoldSome(loop, image, reconstruct_image, channel, FoldedRows)
    /\ Cardinality({t \in Threads : InCritical(t)}) <= 1
    /\ (FoldedRows \cup {thread[t].y : t \in Folding}) \cap history.unread = {}

\* C20, reached: one thread is inside the fold of its row while another, its
\* row read, waits to enter.
FoldContended ==
  /\ InMetricLoop
  /\ loop \in ParallelLoops
  /\ \E t, u \in Threads : InCritical(t) /\ thread[u].pc = "fold"

\* The loops under "#pragma omp parallel for" that share a status flag.
InRowLoop == InRenderLoop \/ (InMetricLoop /\ loop \in ParallelLoops)

\* C21: in a row-parallel metric loop and in the renderer loop status, once
\* MagickFalse, stays MagickFalse; no row is read, folded or painted by a
\* thread that starts it after status became MagickFalse; and a call in which
\* a row failed reports failure.
FailureStopsRows ==
  /\ [][(InRowLoop /\ ~status /\ pc' = pc /\ loop' = loop) => ~status']_vars
  /\ [](op \in MetricOps => history.after_failure = 0)
  /\ []((op \in MetricOps /\ Done /\ history.unread # {}) => result.status = FALSE)

\* The rows of the canvas painted so far.
PaintedRows == {history.painted[k][2] : k \in 1..Len(history.painted)}
CanvasRows == 0..(Rows(image, reconstruct_image) - 1)
Rendered == op = CompareImageChannelsOp /\ Done /\ loop = "CompareImageChannels"

\* C22: when a read, the queueing of a canvas row or the sync of a canvas row
\* fails for any row of the renderer, CompareImageChannels returns NULL; it
\* returns an image only if every row was read, painted and synced.
RenderFailureReturnsNull ==
  Rendered =>
    /\ (history.unread # {} \/ history.unsynced # {})
         => (result.image = "null" /\ result.status = FALSE)
    /\ result.image = "returned"
         => /\ history.unread = {}
            /\ history.unsynced = {}
            /\ PaintedRows = CanvasRows

\* C22, reached: the renderer painted row 0, the sync of row 1 failed, and
\* NULL was returned.
RenderSyncFailed ==
  /\ Rendered
  /\ history.unsynced = {1}
  /\ 0 \in PaintedRows
  /\ history.unread = {}
  /\ result.image = "null"

\* The pixels of the comparison area whose own squared delta in channel c
\* exceeds the fuzz of GetAbsoluteDistortion.
AreaPositions ==
  (0..(Columns(image, reconstruct_image) - 1)) \X (0..(Rows(image, reconstruct_image) - 1))
OwnDeltaExceeds(pos, c) ==
  LET pixel == AbsoluteDelta(image, reconstruct_image, pos[1], pos[2], c)
  IN RatLess(AbsoluteFuzz(image, reconstruct_image, channel), Rat(pixel * pixel, 1))
AbsoluteLoopDone ==
  InMetricLoop /\ loop = "GetAbsoluteDistortion" /\ AllDone /\ status

\* C23: for AbsoluteError the slot of each selected channel is the number of
\* pixels whose own squared delta in that channel exceeds the fuzz, whatever
\* the deltas of the other channels, and the Composite slot is the number of
\* pixels where the own squared delta of some selected channel exceeds it.
AbsoluteCountsOwnDelta ==
  AbsoluteLoopDone =>
    LET act == AbsoluteChannels(image, reconstruct_image, channel)
    IN /\ \A c \in act :
            distortion[c] = Cardinality({pos \in AreaPositions : OwnDeltaExceeds(pos, c)})
       /\ distortion[Composite]
            = Cardinality({pos \in AreaPositions :
                             \E c \in act : OwnDeltaExceeds(pos, c)})

\* The pixels of the canvas painted with the highlight colour.
Highlighted == {pos \in AreaPositions : highlight[pos[2]][pos[1]] = "highlight"}

\* C24: under a mask other than CompositeChannels the renderer paints with the
\* highlight colour exactly the pixels AbsoluteError counts in its Composite
\* slot under the same mask, so the number of highlighted pixels of a returned
\* image is the Composite count of AbsoluteError.
HighlightIsAbsoluteError ==
  (Rendered /\ result.image = "returned" /\ channel # CompositeChannels) =>
    Rat(Cardinality(Highlighted), 1)
      = SequentialDistortion(AbsoluteErrorMetric, image, reconstruct_image,
                             channel)[Composite]

\* A channel that is not both requested and active on the image.
Inactive(c) ==
  \/ c \notin channel
  \/ c = OpacityChannel /\ ~image.matte
  \/ c = IndexChannel /\ image.colorspace # "CMYK"
VectorReturned ==
  Done /\ op = GetImageChannelDistortionsOp /\ result.status = TRUE

\* C25: for every metric the Opacity slot is non-zero only if opacity is in
\* the mask and the image has matte, and the Index (black) slot only if index
\* is in the mask and the image is CMYK: the sums of the row loops and the
\* vector handed back hold zero in the slot of any other channel.
InactiveChannelIsZero ==
  /\ (InMetricLoop /\ loop \in ParallelLoops) =>
       \A c \in {OpacityChannel, IndexChannel} : Inactive(c) => distortion[c] = 0
  /\ VectorReturned =>
       \A c \in {OpacityChannel, IndexChannel} :
         Inactive(c) => IsZero(history.vector[c])

\* The loops that add each channel's term to the channel's slot and to the
\* Composite slot.
SummingLoops ==
  {"GetFuzzDistortion", "GetMeanAbsoluteDistortion", "GetMeanSquaredDistortion",
   "GetMeanErrorPerPixel", "GetPerceptualHashDistortion"}
ChannelSlots == [c \in CompositeChannels |-> distortion[c]]

\* C26: before the normalization, at the start of the loop and after every
\* fold, the Composite sum of Fuzz, MeanAbsoluteError, MeanSquaredError,
\* MeanErrorPerPixel and PerceptualHash is the sum of the channels' sums, and
\* the Composite slot of PeakAbsoluteError is the maximum of the channels' slots.
CompositeFollowsChannels ==
  InMetricLoop =>
    /\ loop \in SummingLoops
         => distortion[Composite] = Sum(ChannelSlots, CompositeChannels)
    /\ loop = "GetPeakAbsoluteDistortion"
         => distortion[Composite] = Maximum(ChannelSlots, CompositeChannels)

\* C26, reached: both rows of GetMeanSquaredDistortion are folded and the
\* Composite sum is the sum of two channels' non-zero sums that differ.
CompositeOfTwoChannels ==
  /\ InMetricLoop
  /\ loop = "GetMeanSquaredDistortion"
  /\ Len(history.folded) = MaxRows
  /\ distortion[RedChannel] > distortion[GreenChannel]
  /\ distortion[GreenChannel] > 0
  /\ distortion[Composite] = distortion[RedChannel] + distortion[GreenChannel]

\* The number of channels of a mask that are active on an image.
ActiveCount(img, mask) ==
  Cardinality(mask \cap {RedChannel, GreenChannel, BlueChannel})
    + (IF OpacityChannel \in mask /\ img.matte THEN 1 ELSE 0)
    + (IF IndexChannel \in mask /\ img.colorspace = "CMYK" THEN 1 ELSE 0)

\* C29: for both images of a finished call and every mask GetNumberChannels is the
\* number of red, green and blue in the mask, plus one for opacity in the mask
\* of an image with matte, plus one for index in the mask of a CMYK image, and
\* 1 when that number is 0: a value from 1 to 5.
NumberOfChannelsIsActiveCount ==
  Done => \A img \in {image, reconstruct_image}, mask \in SUBSET CompositeChannels :
    /\ GetNumberChannels(img, mask)
         = (IF ActiveCount(img, mask) = 0 THEN 1 ELSE ActiveCount(img, mask))
    /\ GetNumberChannels(img, mask) \in 1..5

\* C29, reached: MeanAbsoluteError has divided its Composite sum by the one
\* channel GetNumberChannels counts for the mask of green and opacity on an
\* image without matte, for which a mask of opacity alone counts 1 as well.
OneChannelCounted ==
  /\ Done
  /\ op = GetImageChannelDistortionOp
  /\ metric = MeanAbsoluteErrorMetric
  /\ result.status = TRUE
  /\ channel = {GreenChannel, OpacityChannel}
  /\ ~image.matte
  /\ GetNumberChannels(image, channel) = 1
  /\ GetNumberChannels(image, {OpacityChannel}) = 1
  /\ ~IsZero(result.distortion)

\* The rows "schedule(static)" gives to thread t of the renderer's loop.
OwnRows(t) ==
  FirstRow(t, Rows(image, reconstruct_image), NumThreads)
    ..(LastRow(t, Rows(image, reconstruct_image), NumThreads) - 1)

\* C30: in the renderer every row of the canvas is painted by one thread, the
\* thread the row belongs to, and at most once; when CompareImageChannels
\* succeeds every pixel of the canvas of the larger columns and rows was painted
\* exactly once, with the highlight colour where the pixels differ and with
\* the lowlight colour elsewhere.
RowsPaintedOnce ==
  op = CompareImageChannelsOp =>
    /\ \A k \in 1..Len(history.painted) :
         history.painted[k][2] \in OwnRows(history.painted[k][1])
    /\ Cardinality(PaintedRows) = Len(history.painted)
    /\ (Rendered /\ result.image = "returned") =>
         /\ PaintedRows = CanvasRows
         /\ DOMAIN highlight = CanvasRows
         /\ \A y \in CanvasRows :
              /\ DOMAIN highlight[y] = 0..(Columns(image, reconstruct_image) - 1)
              /\ \A x \in DOMAIN highlight[y] :
                   highlight[y][x]
                     = (IF Difference(image, reconstruct_image, channel, x, y)
                        THEN "highlight" ELSE "lowlight")

\* C30, reached: a difference image is returned whose rows were painted by
\* different threads, row 1 before row 0, with pixels of both colours.
CanvasPaintedByTwo ==
  /\ Rendered
  /\ result.image = "returned"
  /\ history.painted = <<<<2, 1>>, <<1, 0>>>>
  /\ Highlighted # {}
  /\ Highlighted # AreaPositions

\* ----------------------------------------------------------- IsImagesEqual
\* IsImagesEqual up to its row loop: the morphology is validated whatever the
\* caller compares by, and the exception goes to the image.
IsImagesEqualBegin ==
  /\ pc = "call"
  /\ op = IsImagesEqualOp
  /\ IF ~ValidateImageMorphology(image, reconstruct_image)
     THEN /\ pc' = "done"
          /\ result' = [NoResult EXCEPT !.status = FALSE]
          /\ image' = [image EXCEPT !.exception = "ImageMorphologyDiffers"]
          /\ UNCHANGED <<loop, legacy, thread>>
     ELSE /\ pc' = "loop"
          /\ loop' = "IsImagesEqual"
          /\ legacy' = NoLegacy
          /\ thread' = StartThreads(Rows(image, reconstruct_image), 1)
          /\ UNCHANGED <<result, image>>
  /\ distortion' = ZeroVector
  /\ UNCHANGED <<op, metric, channel, reconstruct_image, status, highlight,
                 similarity_metric, offset, similarity_image, history>>

InEqualLoop == pc = "loop" /\ loop = "IsImagesEqual"

\* A read returns NULL: "break".
IsImagesEqualRowFail(t) ==
  /\ InEqualLoop
  /\ AtRow(t)
  /\ thread' = [thread EXCEPT ![t].pc = "done"]
  /\ UNCHANGED <<op, metric, channel, image, reconstruct_image, pc, loop, status,
                 distortion, legacy, result, highlight, similarity_metric, offset,
                 similarity_image, history>>

IsImagesEqualStep(t) ==
  /\ InEqualLoop
  /\ AtRow(t)
  /\ LET row == IsImagesEqualRow(image, reconstruct_image, thread[t].y)
     IN /\ distortion' = [distortion EXCEPT ![Composite] = @ + row.mean_error_per_pixel]
        /\ legacy' = [area |-> legacy.area + row.area,
                      mean_error |-> legacy.mean_error + row.mean_error,
                      maximum_error |-> MagickMax(legacy.maximum_error,
                                                  row.maximum_error)]
  /\ thread' = [thread EXCEPT ![t] = NextRow(@)]
  /\ history' = [history EXCEPT !.rows_read = @ + 1]
  /\ UNCHANGED <<op, metric, channel, image, reconstruct_image, pc, loop, status,
                 result, highlight, similarity_metric, offset, similarity_image>>

\* After the loop: image->error is written and the answer is whether the mean
\* error per pixel is zero.
IsImagesEqualEnd ==
  /\ InEqualLoop
  /\ AllDone
  /\ image' = [image EXCEPT !.error = LegacyError(distortion, legacy)]
  /\ result' = [result EXCEPT !.status =
                  IsZero(LegacyError(distortion, legacy).mean_error_per_pixel)]
  /\ pc' = "done"
  /\ UNCHANGED <<op, metric, channel, reconstruct_image, loop, status, distortion,
                 legacy, thread, highlight, similarity_metric, offset,
                 similarity_image, history>>

\* --------------------------------------------------- SimilarityMetricImage
\* A pixel of the map: as the clone left it, or set to a gray level.
Unset == [set |-> FALSE, red |-> 0]
SetPixel(level) == [set |-> TRUE, red |-> level]

similarity_threshold == ThresholdOf(image.artifact)
ScanRows == image.rows - reconstruct_image.rows + 1
ScanColumns == image.columns - reconstruct_image.columns + 1

\* SimilarityMetricImage up to its row loop.
SimilarityMetricImageBegin ==
  /\ pc = "call"
  /\ op = SimilarityMetricImageOp
  /\ offset' = SetGeometry(reconstruct_image)
  /\ similarity_metric' = MagickMaximumValue
  /\ IF ~ValidateImageMorphology(image, reconstruct_image)
     THEN /\ pc' = "done"
          /\ result' = [NoResult EXCEPT !.status = FALSE, !.image = "null",
                                        !.exception = "ImageMorphologyDiffers"]
          /\ UNCHANGED <<loop, status, thread, similarity_image, history>>
     ELSE /\ pc' = "loop"
          /\ loop' = "SimilarityMetricImage"
          /\ status' = TRUE
          /\ thread' = StartThreads(ScanRows, NumThreads)
          /\ similarity_image' =
               [y \in 0..(ScanRows - 1) |-> [x \in 0..(ScanColumns - 1) |-> Unset]]
          /\ history' = [history EXCEPT !.scored =
                           [c \in Candidates(image, reconstruct_image) |-> 0]]
          /\ UNCHANGED result
  /\ UNCHANGED <<op, metric, channel, image, reconstruct_image, distortion, legacy,
                 highlight>>

InScan == pc = "loop" /\ loop = "SimilarityMetricImage"
Reached == LessEq(similarity_metric, similarity_threshold)

\* "if (status == MagickFalse) continue;"
ScanRowSkip(t) ==
  /\ InScan
  /\ AtRow(t)
  /\ status = FALSE
  /\ thread' = [thread EXCEPT ![t] = NextRow(Cleared(@))]
  /\ UNCHANGED <<op, metric, channel, image, reconstruct_image, pc, loop, status,
                 distortion, legacy, result, highlight, similarity_metric, offset,
                 similarity_image, history>>

\* "if (*similarity_metric <= similarity_threshold) continue;"
ScanRowExit(t) ==
  /\ InScan
  /\ AtRow(t)
  /\ thread[t].status
  /\ Reached
  /\ thread' = [thread EXCEPT ![t] = NextRow(@)]
  /\ history' = [history EXCEPT !.exits = @ + 1]
  /\ UNCHANGED <<op, metric, channel, image, reconstruct_image, pc, loop, status,
                 distortion, legacy, result, highlight, similarity_metric, offset,
                 similarity_image>>

\* GetCacheViewAuthenticPixels returns NULL for the row of the map.
ScanRowFail(t) ==
  /\ InScan
  /\ AtRow(t)
  /\ thread[t].status
  /\ ~Reached
  /\ status' = FALSE
  /\ thread' = [thread EXCEPT ![t] = NextRow(Cleared(@))]
  /\ history' = [history EXCEPT !.unread = @ \cup {thread[t].y}]
  /\ UNCHANGED <<op, metric, channel, image, reconstruct_image, pc, loop,
                 distortion, legacy, result, highlight, similarity_metric, offset,
                 similarity_image>>

\* The row of the map is acquired and the loop over x starts.
ScanRowBegin(t) ==
  /\ InScan
  /\ AtRow(t)
  /\ thread[t].status
  /\ ~Reached
  /\ thread' = [thread EXCEPT ![t].pc = "check", ![t].x = 0]
  /\ UNCHANGED <<op, metric, channel, image, reconstruct_image, pc, loop, status,
                 distortion, legacy, result, highlight, similarity_metric, offset,
                 similarity_image, history>>

\* The head of the loop over x: its end, or "if (*similarity_metric <=
\* similarity_threshold) break;", or on to the score of the candidate.
ScanColumnCheck(t) ==
  /\ InScan
  /\ thread[t].pc = "check"
  /\ IF thread[t].x >= ScanColumns
     THEN /\ thread' = [thread EXCEPT ![t].pc = "sync"]
          /\ UNCHANGED history
     ELSE IF Reached
     THEN /\ thread' = [thread EXCEPT ![t].pc = "sync"]
          /\ history' = [history EXCEPT !.exits = @ + 1]
     ELSE /\ thread' = [thread EXCEPT ![t].pc = "score"]
          /\ UNCHANGED history
  /\ UNCHANGED <<op, metric, channel, image, reconstruct_image, pc, loop, status,
                 distortion, legacy, result, highlight, similarity_metric, offset,
                 similarity_image>>

\* similarity=GetSimilarityMetric(...), and 1.0-similarity under the critical
\* section for the correlation.  The crop or the distortion may fail; the
\* value GetSimilarityMetric returns is taken all the same.
ScanScore(t) ==
  /\ InScan
  /\ thread[t].pc = "score"
  /\ \E outcome \in {"ok", "crop", "engine"} :
       /\ outcome # "ok" => history.failed < image.cache_faults
       /\ \E returned \in Evaluations(image, reconstruct_image, metric,
                                      thread[t].x, thread[t].y)[outcome] :
            LET similarity == Normalized(metric, returned)
            IN /\ thread' = [thread EXCEPT ![t].pc = "compare",
                                           ![t].similarity = similarity]
               /\ history' = [history EXCEPT
                    !.scored[<<thread[t].x, thread[t].y>>] = @ + 1,
                    !.found = @ \/ Same(similarity, Zero),
                    !.after_found = IF history.found THEN @ + 1 ELSE @,
                    !.after_crossing[t] = IF history.crossed THEN @ + 1 ELSE @,
                    !.failed = IF outcome = "ok" THEN @ ELSE @ + 1,
                    !.failing = IF outcome = "ok" THEN @ \ {t} ELSE @ \cup {t}]
  /\ UNCHANGED <<op, metric, channel, image, reconstruct_image, pc, loop, status,
                 distortion, legacy, result, highlight, similarity_metric, offset,
                 similarity_image>>

\* The pixel of the map is set and the loop goes on to the next x.
Painted(t) ==
  /\ similarity_image' =
       [similarity_image EXCEPT ![thread[t].y][thread[t].x] =
          SetPixel(ConfidencePixel(metric, thread[t].similarity))]
  /\ thread' = [thread EXCEPT ![t].pc = "check", ![t].x = @ + 1]

\* "if (similarity < *similarity_metric)", outside the critical section: the
\* test reads the shared best score; the three stores that follow it are
\* steps of their own.
ScanCompare(t) ==
  /\ InScan
  /\ thread[t].pc = "compare"
  /\ IF Less(thread[t].similarity, similarity_metric)
     THEN /\ thread' = [thread EXCEPT ![t].pc = "store"]
          /\ UNCHANGED similarity_image
     ELSE Painted(t)
  /\ history' = [history EXCEPT !.used_failed = @ \/ t \in history.failing]
  /\ UNCHANGED <<op, metric, channel, image, reconstruct_image, pc, loop, status,
                 distortion, legacy, result, highlight, similarity_metric, offset>>

\* "*similarity_metric=similarity;"
ScanStoreMetric(t) ==
  /\ InScan
  /\ thread[t].pc = "store"
  /\ similarity_metric' = thread[t].similarity
  /\ thread' = [thread EXCEPT ![t].pc = "store_x"]
  /\ history' = [history EXCEPT !.crossed =
                   @ \/ LessEq(thread[t].similarity, similarity_threshold)]
  /\ UNCHANGED <<op, metric, channel, image, reconstruct_image, pc, loop, status,
                 distortion, legacy, result, highlight, offset, similarity_image>>

\* "offset->x=x;"
ScanStoreX(t) ==
  /\ InScan
  /\ thread[t].pc = "store_x"
  /\ offset' = [offset EXCEPT !.x = thread[t].x]
  /\ thread' = [thread EXCEPT ![t].pc = "store_y"]
  /\ UNCHANGED <<op, metric, channel, image, reconstruct_image, pc, loop, status,
                 distortion, legacy, result, highlight, similarity_metric,
                 similarity_image, history>>

\* "offset->y=y;" and the pixel of the map.
ScanStoreY(t) ==
  /\ InScan
  /\ thread[t].pc = "store_y"
  /\ offset' = [offset EXCEPT !.y = thread[t].y]
  /\ Painted(t)
  /\ UNCHANGED <<op, metric, channel, image, reconstruct_image, pc, loop, status,
                 distortion, legacy, result, highlight, similarity_metric, history>>

\* The end of a row: the sync of the map's row and the progress monitor may
\* each clear status.
ScanRowSync(t) ==
  /\ InScan
  /\ thread[t].pc = "sync"
  /\ \E sync \in BOOLEAN, proceed \in BOOLEAN :
       /\ image.progress_monitor = "none" => proceed
       /\ status' = IF sync /\ proceed THEN status ELSE FALSE
       /\ thread' = [thread EXCEPT ![t] =
                       NextRow(IF sync /\ proceed THEN @ ELSE Cleared(@))]
       /\ history' = [history EXCEPT
                        !.unsynced = IF sync THEN @ ELSE @ \cup {thread[t].y}]
  /\ UNCHANGED <<op, metric, channel, image, reconstruct_image, pc, loop,
                 distortion, legacy, result, highlight, similarity_metric, offset,
                 similarity_image>>

\* After the loop: the map, or NULL for a MagickFalse status.
SimilarityMetricImageEnd ==
  /\ InScan
  /\ AllDone
  /\ result' = [result EXCEPT !.status = status,
                              !.image = IF status THEN "returned" ELSE "null"]
  /\ pc' = "done"
  /\ UNCHANGED <<op, metric, channel, image, reconstruct_image, loop, status,
                 distortion, legacy, thread, highlight, similarity_metric, offset,
                 similarity_image, history>>

\* ---------------------------------------------------------- the search alone
SearchImages == OneOff(Gray, MaxColumns, MaxRows, FALSE, "sRGB")
Configured(img, artifact, mon) ==
  [img EXCEPT !.artifact = artifact, !.progress_monitor = mon]
SearchSettings ==
  {<<NoArtifact, "none", 0>>, <<NoArtifact, "set", 0>>, <<Rat(-1, 2), "none", 0>>,
   <<Zero, "none", 0>>, <<NoArtifact, "none", MaxFailures>>}

InitSearch ==
  /\ InitCall
  /\ op = SimilarityMetricImageOp
  /\ metric \in Metrics
  /\ channel = CompositeChannels
  /\ image \in { [Configured(i, c[1], c[2]) EXCEPT !.cache_faults = c[3]] :
                  i \in SearchImages, c \in SearchSettings }
  /\ reconstruct_image \in
       Uniform(Palette, 1, 1, FALSE, "sRGB")
         \cup {CropImage(MakeImage(MaxColumns, MaxRows, FALSE, "sRGB", image.pixels),
                         MaxColumns, 1, 0, 0)}
  /\ history = Called(image, reconstruct_image)

NextSearch ==
  \/ SimilarityMetricImageBegin
  \/ \E t \in Threads : ScanRowSkip(t)
  \/ \E t \in Threads : ScanRowExit(t)
  \/ \E t \in Threads : ScanRowFail(t)
  \/ \E t \in Threads : ScanRowBegin(t)
  \/ \E t \in Threads : ScanColumnCheck(t)
  \/ \E t \in Threads : ScanScore(t)
  \/ \E t \in Threads : ScanCompare(t)
  \/ \E t \in Threads : ScanStoreMetric(t)
  \/ \E t \in Threads : ScanStoreX(t)
  \/ \E t \in Threads : ScanStoreY(t)
  \/ \E t \in Threads : ScanRowSync(t)
  \/ SimilarityMetricImageEnd

SpecSearch == InitSearch /\ [][NextSearch]_vars

\* ------------------------------------------------ properties of the search
SearchDone ==
  /\ Done /\ op = SimilarityMetricImageOp
  /\ result.status = TRUE /\ history.failed = 0
FullScan == image.artifact = NoArtifact \/ Less(image.artifact, Zero)
AllCandidates == Candidates(image, reconstruct_image)
ScoreAt(c) == Score(image, reconstruct_image, metric, c[1], c[2])
ExactMatches == {c \in AllCandidates : Same(ScoreAt(c), Zero)}

\* C1 as stated, for the default metric RootMeanSquaredError: after a full scan
\* without failure the best score is the minimum of the scores of all
\* candidates, and the candidate at the offset handed back has that score.
BestIsMinimum ==
  (SearchDone /\ FullScan /\ metric = RootMeanSquaredErrorMetric)
    => /\ \A c \in AllCandidates : LessEq(similarity_metric, ScoreAt(c))
       /\ \E c \in AllCandidates : Same(similarity_metric, ScoreAt(c))
       /\ Same(ScoreAt(<<offset.x, offset.y>>), similarity_metric)

\* C2 as stated: with a threshold of 0 and an exact match in the image the
\* scan hands back the score 0 at an exact match, and fewer scores are taken
\* after the match was found than a full scan takes.
EarlyExitReturnsMatch ==
  (SearchDone /\ image.artifact = Zero /\ ExactMatches # {})
    => /\ Same(similarity_metric, Zero)
       /\ <<offset.x, offset.y>> \in ExactMatches
       /\ history.after_found < Cardinality(AllCandidates)

\* C8 as stated: a full scan hands back what the scan of one thread does: the
\* same best score, the same offset and the same map.
ScanIsDeterministic ==
  (SearchDone /\ FullScan)
    => LET one == SequentialScan(image, reconstruct_image, metric,
                                 Cardinality(AllCandidates))
       IN /\ similarity_metric = one.similarity_metric
          /\ offset = one.offset
          /\ \A c \in AllCandidates :
               similarity_image[c[2]][c[1]]
                 = SetPixel(ConfidencePixel(metric, ScoreAt(c)))

OffsetIsCandidate ==
  (op = SimilarityMetricImageOp /\ pc # "call")
    => /\ offset.width = reconstruct_image.columns
       /\ offset.height = reconstruct_image.rows
       /\ 0 <= offset.x /\ offset.x <= image.columns - reconstruct_image.columns
       /\ 0 <= offset.y /\ offset.y <= image.rows - reconstruct_image.rows

\* A white reference of one pixel inside [[black, white], [black, black]].
WhiteReferenceInBlack ==
  /\ reconstruct_image.columns = 1 /\ reconstruct_image.rows = 1
  /\ reconstruct_image.pixels[<<0, 0>>] = WhitePixel
  /\ image.columns = 2 /\ image.rows = 2
  /\ \A pos \in DOMAIN image.pixels :
       image.pixels[pos] = IF pos = <<1, 0>> THEN WhitePixel ELSE BlackPixel

\* C13 as stated: in every state of a scan and in its result the offset is the
\* reference's rectangle at a candidate offset, and the scan of a white
\* reference of one pixel inside [[black, white], [black, black]] under
\* RootMeanSquaredError ends with the offset (1, 0) and the score 0.
OffsetIsBestCandidate ==
  /\ OffsetIsCandidate
  /\ (SearchDone /\ WhiteReferenceInBlack /\ metric = RootMeanSquaredErrorMetric)
       => /\ offset.x = 1 /\ offset.y = 0
          /\ Same(similarity_metric, Zero)

\* The score the map shows: MagickMin(0.01*score,1.0) for the perceptual hash,
\* the normalized score for every other metric.
MapScore(c) ==
  IF metric = PerceptualHashErrorMetric
  THEN LET s == Rat(ScoreAt(c).n, 100 * ScoreAt(c).d)
       IN IF RatLess(One, s) THEN One ELSE s
  ELSE ScoreAt(c)
\* score >= 1 (a decibel value is at least 1 for a mean squared error of at
\* most 3/4).
AtLeastOne(v) ==
  IF v.k = "db" THEN 4 * v.n <= 3 * v.d ELSE LessEq(One, v)

\* C15: after a full scan that succeeded the map has one pixel for each
\* candidate offset, the pixel of candidate (x, y) is
\* ClampToQuantum(QuantumRange-QuantumRange*s) for the score s of that
\* candidate, which is QuantumRange (white) for the score 0 and 0 (black) for
\* a score of at least 1.
MapShowsScores ==
  (SearchDone /\ FullScan)
    => /\ DOMAIN similarity_image = 0..(image.rows - reconstruct_image.rows)
       /\ \A y \in DOMAIN similarity_image :
            DOMAIN similarity_image[y] = 0..(image.columns - reconstruct_image.columns)
       /\ \A c \in AllCandidates :
            LET pixel == similarity_image[c[2]][c[1]]
            IN /\ pixel = SetPixel(ClampToQuantum(MapScore(c)))
               /\ Same(MapScore(c), Zero) => pixel.red = QuantumRange
               /\ AtLeastOne(MapScore(c)) => pixel.red = 0

\* C15, reached: a full scan has ended with a map of several pixels, a white
\* one at an exact match and a black one at a candidate whose score is 1.
MapShowsScoresReached ==
  /\ SearchDone
  /\ FullScan
  /\ Cardinality(AllCandidates) > 1
  /\ \E c \in AllCandidates :
       Same(MapScore(c), Zero) /\ similarity_image[c[2]][c[1]] = SetPixel(QuantumRange)
  /\ \E c \in AllCandidates :
       AtLeastOne(MapScore(c)) /\ similarity_image[c[2]][c[1]] = SetPixel(0)

\* A worker is updating when it has passed "if (similarity <
\* *similarity_metric)" and has not yet stored the score and both offsets.
Updating == {"store", "store_x", "store_y"}

\* C16 as stated: while one worker is between its read of the shared best
\* score and its writes of the score and the offset, no other worker takes a
\* step of its own compare-and-update.
UpdateIsExclusive ==
  [][\A t \in Threads, u \in Threads :
       (t # u /\ InScan /\ thread[t].pc \in Updating
          /\ thread[u].pc \in {"compare"} \cup Updating)
         => thread'[u] = thread[u]]_vars

\* C17 as stated: no step of a scan increases the shared best score.
BestNeverIncreases ==
  [][InScan => LessEq(similarity_metric', similarity_metric)]_vars

\* C18 as stated: once the shared best score is at or below the threshold it
\* stays there until the scan ends, and after the crossing each worker takes
\* the score of at most one more candidate.
CrossingEndsScan ==
  /\ [][(InScan /\ Reached) => Reached']_vars
  /\ [](op = SimilarityMetricImageOp
          => \A t \in Threads : history.after_crossing[t] <= 1)

\* C19 as stated: the value GetSimilarityMetric returns for a candidate whose
\* crop or distortion failed is never compared with the best score, and a
\* scan with such a candidate ends in failure without a map.
FailedScoreIsDropped ==
  op = SimilarityMetricImageOp
    => /\ ~history.used_failed
       /\ (Done /\ history.failed > 0)
            => result.status = FALSE /\ result.image = "null"

\* The candidates whose region holds the pixels of the reference.
Identical(c) ==
  CropImage(image, reconstruct_image.columns, reconstruct_image.rows, c[1], c[2]).pixels
    = reconstruct_image.pixels
SequentialOffset ==
  LET best == SequentialScan(image, reconstruct_image, metric, Cardinality(AllCandidates))
  IN <<best.offset.x, best.offset.y>>

\* C27: for every metric the score the scan compares is ordered so that lower
\* is better: a candidate identical to the reference scores no more than any
\* candidate that differs from it, so a sequential full scan hands back the
\* offset of an identical candidate whenever there is one.
LowerIsBetter ==
  InScan =>
    /\ \A c, d \in AllCandidates :
         (Identical(c) /\ ~Identical(d)) => LessEq(ScoreAt(c), ScoreAt(d))
    /\ (\E c \in AllCandidates : Identical(c)) => Identical(SequentialOffset)

\* ------------------------------------------------------- every operation
\* The calls of the five operations over every pair of morphologies: an image
\* that is black, or black with one tinted pixel, against its own pixels or a
\* black image; the search takes a reference of one pixel.
PixelMaps ==
  {[pos \in Positions(MaxColumns, MaxRows) |-> BlackPixel],
   [pos \in Positions(MaxColumns, MaxRows) |->
      IF pos = <<0, 0>> THEN TintPixel ELSE BlackPixel]}
Operations ==
  {CompareImageChannelsOp, GetImageChannelDistortionOp, GetImageChannelDistortionsOp,
   IsImagesEqualOp, SimilarityMetricImageOp}

Init ==
  /\ InitCall
  /\ op \in Operations
  /\ metric \in IF op = IsImagesEqualOp THEN {UndefinedErrorMetric} ELSE Metrics
  /\ channel \in IF op \in {CompareImageChannelsOp, GetImageChannelDistortionOp}
                 THEN Masks ELSE {CompositeChannels}
  /\ \E m \in Morphologies, pix \in PixelMaps :
       \E artifact \in IF op = SimilarityMetricImageOp THEN {NoArtifact, Zero}
                       ELSE {NoArtifact} :
         image = Configured(MakeImage(MaxColumns, MaxRows, m[1], m[2], pix),
                            artifact, "none")
  /\ \E m \in Morphologies :
       reconstruct_image \in
         IF op = SimilarityMetricImageOp
         THEN Uniform({BlackPixel, TintPixel}, 1, 1, m[1], m[2])
         ELSE {MakeImage(MaxColumns, MaxRows, m[1], m[2], image.pixels)}
                \cup Uniform({BlackPixel}, MaxColumns, MaxRows, m[1], m[2])
  /\ history = Called(image, reconstruct_image)

Next ==
  \/ NextMetric
  \/ IsImagesEqualBegin
  \/ \E t \in Threads : IsImagesEqualRowFail(t)
  \/ \E t \in Threads : IsImagesEqualStep(t)
  \/ IsImagesEqualEnd
  \/ NextSearch

Spec == Init /\ [][Next]_vars

\* A call that entered its row loop and in which no read, crop, queueing or
\* sync of pixels failed.
NoAccessFailed ==
  /\ Done
  /\ loop # "none"
  /\ history.unread = {}
  /\ history.unsynced = {}
  /\ history.failed = 0

\* C28: when no pixel access fails, a metric reads every row of the area and a
\* scan without threshold scores every candidate, and the call succeeds:
\* nothing but the threshold ends a call early or makes it fail.
OnlyThresholdStops ==
  /\ (NoAccessFailed /\ op \in MetricOps) =>
       /\ result.status = TRUE
       /\ metric # PerceptualHashErrorMetric
            => history.rows_read = Rows(history.image, history.reconstruct_image)
  /\ (NoAccessFailed /\ op = SimilarityMetricImageOp /\ FullScan) =>
       /\ result.status = TRUE
       /\ \A c \in AllCandidates : history.scored[c] >= 1

\* ---------------------------------------------- properties of the operations
ExactlyOneAlpha == image.matte # reconstruct_image.matte
SameColorModel ==
  (image.colorspace = "CMYK") <=> (reconstruct_image.colorspace = "CMYK")
Returned == pc # "call"
FailedOnMorphology ==
  /\ Done
  /\ result.status = FALSE
  /\ "ImageMorphologyDiffers" \in {result.exception, image.exception}
CountsDiffer ==
  GetNumberChannels(history.image, DefaultChannels)
    # GetNumberChannels(history.reconstruct_image, DefaultChannels)

MorphologyFailureIsExact ==
  (op \in Operations \ {IsImagesEqualOp} /\ Returned)
    => /\ ("ImageMorphologyDiffers" \in {result.exception, image.exception})
          <=> (CountsDiffer /\ (op = SimilarityMetricImageOp
                                \/ metric # PerceptualHashErrorMetric))
       /\ ("ImageMorphologyDiffers" \in {result.exception, image.exception})
          => /\ FailedOnMorphology
             /\ history.rows_read = 0
             /\ history.scored = <<>>
             /\ result.vector # "returned"
             /\ result.image # "returned"
             /\ highlight = <<>>
             /\ similarity_image = <<>>

\* C6, reached: findBestMatch under the perceptual hash has failed with
\* ImageMorphologyDiffers before it scored a candidate.
MorphologyFailureReached ==
  /\ op = SimilarityMetricImageOp
  /\ metric = PerceptualHashErrorMetric
  /\ FailedOnMorphology
  /\ history.scored = <<>>

\* C10 as amended: no operation changes the pixels, the geometry, the
\* morphology or the settings of its image, or anything of the reconstructed
\* (reference) image.
InputPixelsUnchanged ==
  /\ reconstruct_image = history.reconstruct_image
  /\ [image EXCEPT !.properties = {}, !.error = NoError, !.exception = "none"]
       = history.image

\* C10, reached: distortion has ended and has left its "distortion" property
\* on the image.
PropertyWritten ==
  /\ Done
  /\ op = GetImageChannelDistortionOp
  /\ "distortion" \in image.properties
  /\ reconstruct_image = history.reconstruct_image

\* C10 as stated: no operation changes any state of its image or of the
\* reconstructed (reference) image.
InputsUnchanged ==
  /\ image = history.image
  /\ reconstruct_image = history.reconstruct_image


\* Every channel IsImagesEqual compares has the same value in the two images
\* at every pixel of the comparison area.
EqualOverArea ==
  LET act == Selected(CompositeChannels, history.image.matte,
                      BothCMYK(history.image, history.reconstruct_image))
  IN \A x \in 0..(Columns(history.image, history.reconstruct_image) - 1),
        y \in 0..(Rows(history.image, history.reconstruct_image) - 1), c \in act :
       VirtualPixel(history.image, x, y)[c]
         = VirtualPixel(history.reconstruct_image, x, y)[c]

\* C14 as stated: imagesEqual answers true only when every compared channel of
\* every pixel of the comparison area is the same in the two images, every row
\* was read and the morphology check passed.
TrueOnlyIfEqual ==
  (Done /\ op = IsImagesEqualOp /\ result.status = TRUE)
    => /\ EqualOverArea
       /\ history.rows_read = Rows(history.image, history.reconstruct_image)
       /\ image.exception # "ImageMorphologyDiffers"

====
